---------------------------- MODULE Spec2Model ----------------------------
(***************************************************************************)
(* Job source ingestion of the recommender service                         *)
(* (services/recommender/src/recommender/main.py): the per-source scan     *)
(* state machine with exponential backoff, the scan history, and the       *)
(* posting repository with its dedup key.                                  *)
(*                                                                         *)
(* Representation.                                                         *)
(*   - A text (Python str) is a sequence of one-character strings.         *)
(*   - An optional value (Python None / SQL NULL) is None == <<>>; a       *)
(*     present value v is Some(v) == <<v>>.                                *)
(*   - A timestamp (now_utc_iso()) is a number of clock ticks; one second  *)
(*     is TicksPerSecond ticks, so that instants less than a second apart  *)
(*     are distinct, as they are with the microsecond clock of the code.   *)
(*   - A SHA-1 digest is the digested text behind a "#sha1" tag: equal     *)
(*     inputs give equal digests and collisions are not modelled.          *)
(***************************************************************************)
EXTENDS Integers, Sequences, FiniteSets, TLC

VARIABLES
    now,           \* the clock now_utc_iso() reads
    job_sources,   \* table job_sources: a set of rows
    job_postings,  \* table job_postings: a set of rows
    scan_history,  \* table job_source_scan_history: rows in id order
    th,            \* the request each worker thread is handling
    attempts,      \* per source: calls of scan_source so far
    started,       \* requests started so far
    ticked,        \* clock advances so far
    recommendation_runs,  \* tables recommendation_runs and _items, in id order
    user_profiles, \* table user_profiles: a set of rows
    api_tokens,    \* table api_tokens: a set of rows
    auth_token_scopes,  \* app.state.auth_token_scopes: token -> scopes
    digest_queue,  \* emailer: the items of DigestWorker.queue, oldest first
    digest_worker  \* emailer: the task running DigestWorker.run

vars == <<now, job_sources, job_postings, scan_history, th, attempts, started, ticked,
          recommendation_runs, user_profiles, api_tokens, auth_token_scopes,
          digest_queue, digest_worker>>

auth_vars == <<api_tokens, auth_token_scopes>>
emailer_vars == <<digest_queue, digest_worker>>

(***************************************************************************)
(* Bounds of the model.                                                    *)
(***************************************************************************)
\* Clock resolution: ticks per second.
TicksPerSecond == 2
\* Requests started in one behaviour of Spec.
MaxRequests == 3
\* Clock advances in one behaviour of Spec.
MaxTicks == 1
\* Scans made in one behaviour of SpecBackoff.
MaxScans == 8
\* Longest title given to build_dedup_key in SpecDedup.
MaxTitleLen == 3

None == <<>>
Some(v) == <<v>>
IsSet(opt) == opt # None
Val(opt) == opt[1]

Min(a, b) == IF a < b THEN a ELSE b
Max(a, b) == IF a > b THEN a ELSE b

RECURSIVE Pow2(_)
Pow2(n) == IF n <= 0 THEN 1 ELSE 2 * Pow2(n - 1)

(***************************************************************************)
(* Text helpers: str.split / str.join / str.strip / str.lower.             *)
(***************************************************************************)
IsSpace(c) == c \in {" ", "\t", "\n"}
IsLowerAlnum(c) == c \in {"a", "b", "c", "e", "m", "n", "o", "r", "t", "x", "1", "2"}
IsAlpha(c) == c \in {"a", "b", "c", "e", "m", "n", "o", "r", "t", "x",
                     "A", "B", "C", "E", "M", "N", "O", "R", "T", "X"}
IsDigit(c) == c \in {"1", "2"}

LowerChar(c) ==
    CASE c = "A" -> "a" [] c = "B" -> "b" [] c = "C" -> "c" [] c = "E" -> "e"
      [] c = "M" -> "m" [] c = "N" -> "n" [] c = "O" -> "o" [] c = "R" -> "r" [] c = "T" -> "t"
      [] c = "X" -> "x" [] OTHER -> c

lower(text) == [i \in 1..Len(text) |-> LowerChar(text[i])]

RECURSIVE split_ws(_, _, _)
split_ws(text, cur, acc) ==
    IF text = <<>>
    THEN (IF cur = <<>> THEN acc ELSE Append(acc, cur))
    ELSE IF IsSpace(Head(text))
         THEN split_ws(Tail(text), <<>>, IF cur = <<>> THEN acc ELSE Append(acc, cur))
         ELSE split_ws(Tail(text), Append(cur, Head(text)), acc)

RECURSIVE join(_, _)
join(words, sep) ==
    IF words = <<>> THEN <<>>
    ELSE IF Len(words) = 1 THEN words[1]
    ELSE words[1] \o sep \o join(Tail(words), sep)

RECURSIVE lstrip(_)
lstrip(text) ==
    IF text # <<>> /\ IsSpace(Head(text)) THEN lstrip(Tail(text)) ELSE text

RECURSIVE rstrip(_)
rstrip(text) ==
    IF text # <<>> /\ IsSpace(text[Len(text)])
    THEN rstrip(SubSeq(text, 1, Len(text) - 1)) ELSE text

strip(text) == rstrip(lstrip(text))

RECURSIVE rstrip_slash(_)
rstrip_slash(text) ==
    IF text # <<>> /\ text[Len(text)] = "/"
    THEN rstrip_slash(SubSeq(text, 1, Len(text) - 1)) ELSE text

\* x or "" and x or None
OrEmpty(opt) == IF opt = None THEN <<>> ELSE Val(opt)
OrNone(text) == IF text = <<>> THEN None ELSE Some(text)

\* The first index of a character of `set` in text, 0 when there is none.
RECURSIVE find_first(_, _, _)
find_first(text, set, i) ==
    IF i > Len(text) THEN 0
    ELSE IF text[i] \in set THEN i ELSE find_first(text, set, i + 1)

(***************************************************************************)
(* Normalizer and dedup key.                                               *)
(***************************************************************************)
normalize_whitespace(text) == join(split_ws(text, <<>>, <<>>), <<" ">>)

\* re.sub(r"[^a-z0-9\s]+", " ", s): every maximal run of other characters
\* becomes one space.
RECURSIVE sub_non_alnum(_, _)
sub_non_alnum(text, inRun) ==
    IF text = <<>> THEN <<>>
    ELSE IF IsLowerAlnum(Head(text)) \/ IsSpace(Head(text))
         THEN <<Head(text)>> \o sub_non_alnum(Tail(text), FALSE)
         ELSE (IF inRun THEN <<>> ELSE <<" ">>) \o sub_non_alnum(Tail(text), TRUE)

\* A normalisation that keeps the letter case.
normalize_text_keeping_case(text) ==
    normalize_whitespace(sub_non_alnum(normalize_whitespace(text), FALSE))

normalize_text(text) ==
    LET squashed == lower(normalize_whitespace(text))
        alnum_only == sub_non_alnum(squashed, FALSE)
    IN  normalize_whitespace(alnum_only)

\* urllib.parse.urlsplit, as far as netloc and path go: an optional
\* scheme up to the first ":", a netloc after "//" up to the first of
\* "/", "?", "#", then the path up to the first "#" or "?".
before(text, i) == IF i = 0 THEN text ELSE SubSeq(text, 1, i - 1)
from(text, i) == IF i = 0 THEN <<>> ELSE SubSeq(text, i, Len(text))
before_any(text, set) == before(text, find_first(text, set, 1))
from_any(text, set) == from(text, find_first(text, set, 1))

has_scheme(url, colon) ==
    /\ colon > 1
    /\ IsAlpha(url[1])
    /\ \A i \in 1..(colon - 1) :
           IsAlpha(url[i]) \/ IsDigit(url[i]) \/ url[i] \in {"+", "-", "."}

drop_scheme(url, colon) ==
    IF has_scheme(url, colon) THEN SubSeq(url, colon + 1, Len(url)) ELSE url

split_netloc(rest) ==
    IF Len(rest) >= 2 /\ rest[1] = "/" /\ rest[2] = "/"
    THEN [netloc |-> before_any(SubSeq(rest, 3, Len(rest)), {"/", "?", "#"}),
          tail |-> from_any(SubSeq(rest, 3, Len(rest)), {"/", "?", "#"})]
    ELSE [netloc |-> <<>>, tail |-> rest]

path_of(parts) ==
    [netloc |-> parts.netloc,
     path |-> before_any(before_any(parts.tail, {"#"}), {"?"})]

urlsplit(url) == path_of(split_netloc(drop_scheme(url, find_first(url, {":"}, 1))))

host_path(parsed) == lower(parsed.netloc) \o rstrip_slash(parsed.path)

normalize_url(url) ==
    IF url = None \/ url = Some(<<>>) THEN <<>>
    ELSE host_path(urlsplit(strip(Val(url))))

sha1(text) == <<"#sha1">> \o text

build_dedup_key(title, company, location, apply_url) ==
    LET normalized_title == normalize_text(title)
        normalized_company == normalize_text(OrEmpty(company))
        normalized_location == normalize_text(OrEmpty(location))
        normalized_apply_url == normalize_url(apply_url)
        key_input == join(<<normalized_title, normalized_company,
                            normalized_location, normalized_apply_url>>, <<"|">>)
    IN  sha1(key_input)

(***************************************************************************)
(* JSON values of a source payload item: a key may be absent, null or a    *)
(* string.  str(item.get(key, "")) is "" for an absent key, "None" for a   *)
(* null and the string itself otherwise.                                   *)
(***************************************************************************)
Absent == [tag |-> "absent", v |-> <<>>]
JNull == [tag |-> "null", v |-> <<>>]
Str(text) == [tag |-> "str", v |-> text]

PyStrGet(field) ==
    CASE field.tag = "absent" -> <<>>
      [] field.tag = "null" -> <<"N", "o", "n", "e">>
      [] OTHER -> field.v

\* IngestedPosting.model_dump(): every field is a key, None becomes null.
DumpOpt(opt) == IF opt = None THEN JNull ELSE Str(Val(opt))

model_dump(p) ==
    [kind |-> "dict",
     id |-> DumpOpt(p.id),
     external_id |-> DumpOpt(p.external_id),
     title |-> Str(p.title),
     description |-> Str(p.description),
     company |-> DumpOpt(p.company),
     location |-> DumpOpt(p.location),
     apply_url |-> DumpOpt(p.apply_url)]

\* JobSourceUpsertRequest.config_json
config_json(payload) ==
    IF payload.source_type = "inline_json"
    THEN [postings |-> Some([i \in 1..Len(payload.postings) |->
                                model_dump(payload.postings[i])]),
          url |-> None]
    ELSE [postings |-> None, url |-> payload.url]

validate_source_config_lenient(payload) == payload.source_type \in {"inline_json", "json_url"}

\* JobSourceUpsertRequest.validate_source_config
validate_source_config(payload) ==
    /\ ~(payload.source_type = "inline_json" /\ payload.postings = <<>>)
    /\ ~(payload.source_type = "json_url" /\ payload.url = None)

(***************************************************************************)
(* Repository: job_sources.                                                *)
(***************************************************************************)
HasSource(rows, source_id) == \E r \in rows : r.source_id = source_id
SourceRow(rows, source_id) == CHOOSE r \in rows : r.source_id = source_id

\* A row as INSERT writes it: no scan state yet.
new_source_row(payload, at) ==
    [source_id |-> payload.source_id,
     name |-> payload.name,
     source_type |-> payload.source_type,
     config |-> config_json(payload),
     enabled |-> payload.enabled,
     created_at |-> at,
     updated_at |-> at,
     last_scan_at |-> None,
     last_success_at |-> None,
     last_status |-> None,
     last_error |-> None,
     next_eligible_scan_at |-> None,
     consecutive_failures |-> 0]

upsert_job_source_replacing(rows, payload, at) ==
    {r \in rows : r.source_id # payload.source_id} \cup {new_source_row(payload, at)}

\* INSERT ... ON CONFLICT(source_id) DO UPDATE SET name, source_type,
\* config_json, enabled, updated_at
upsert_job_source(rows, payload, at) ==
    IF HasSource(rows, payload.source_id)
    THEN LET old == SourceRow(rows, payload.source_id)
         IN  (rows \ {old}) \cup
             {[old EXCEPT !.name = payload.name,
                          !.source_type = payload.source_type,
                          !.config = config_json(payload),
                          !.enabled = payload.enabled,
                          !.updated_at = at]}
    ELSE rows \cup {new_source_row(payload, at)}

\* get_job_source: the row, or None
get_job_source(rows, source_id) ==
    IF HasSource(rows, source_id) THEN Some(SourceRow(rows, source_id)) ELSE None

\* The source ids of the model, in the order ORDER BY source_id gives.
SourceIdOrder == <<"s1", "s2">>
SourceIds == {SourceIdOrder[i] : i \in 1..Len(SourceIdOrder)}

RECURSIVE OrderBySourceId(_, _)
OrderBySourceId(rows, i) ==
    IF i > Len(SourceIdOrder) THEN <<>>
    ELSE (IF HasSource(rows, SourceIdOrder[i])
          THEN <<SourceRow(rows, SourceIdOrder[i])>> ELSE <<>>)
         \o OrderBySourceId(rows, i + 1)

list_scan_targets(rows, enabled_only, respect_backoff, now_iso) ==
    OrderBySourceId({r \in rows :
        /\ (enabled_only => r.enabled)
        /\ (respect_backoff =>
               (r.next_eligible_scan_at = None \/ Val(r.next_eligible_scan_at) <= now_iso))}, 1)

\* min(60 * (2 ** max(next_failure_count - 1, 0)), 3600)
BackoffBase == 60
BackoffCap == 3600

backoff_for_uncapped(next_failure_count) ==
    BackoffBase * Pow2(Max(next_failure_count - 1, 0))

backoff_for(next_failure_count) ==
    Min(BackoffBase * Pow2(Max(next_failure_count - 1, 0)), BackoffCap)

\* int(delta.total_seconds()) of a difference of two instants, truncating
\* toward zero.
total_seconds_int(delta) ==
    IF delta >= 0 THEN delta \div TicksPerSecond ELSE -((-delta) \div TicksPerSecond)

\* The values record_job_source_scan_result computes from the stored row,
\* by status.
transition_ok_keeps_attempt(row, scanned_at) ==
    [attempt_number |-> row.consecutive_failures + 1,
     backoff_seconds |-> 0,
     next_eligible_scan_at |-> None,
     last_success_at |-> Some(scanned_at),
     next_failure_count |-> 0,
     last_error |-> None]

transition_ok_keeps_window(row, scanned_at) ==
    [attempt_number |-> 1,
     backoff_seconds |-> 0,
     next_eligible_scan_at |-> row.next_eligible_scan_at,
     last_success_at |-> Some(scanned_at),
     next_failure_count |-> 0,
     last_error |-> None]

transition_ok(row, scanned_at) ==
    [attempt_number |-> 1,
     backoff_seconds |-> 0,
     next_eligible_scan_at |-> None,
     last_success_at |-> Some(scanned_at),
     next_failure_count |-> 0,
     last_error |-> None]

transition_error_keeps_last_error(row, scanned_at, error) ==
    [attempt_number |-> row.consecutive_failures + 1,
     backoff_seconds |-> backoff_for(row.consecutive_failures + 1),
     next_eligible_scan_at |->
         Some(scanned_at + backoff_for(row.consecutive_failures + 1) * TicksPerSecond),
     last_success_at |-> None,
     next_failure_count |-> row.consecutive_failures + 1,
     last_error |-> row.last_error]

\* A failure whose backoff is computed from the count before it.
transition_error_previous_backoff(row, scanned_at, error) ==
    [attempt_number |-> row.consecutive_failures + 1,
     backoff_seconds |-> backoff_for(Max(row.consecutive_failures, 1)),
     next_eligible_scan_at |->
         Some(scanned_at + backoff_for(Max(row.consecutive_failures, 1)) * TicksPerSecond),
     last_success_at |-> None,
     next_failure_count |-> row.consecutive_failures + 1,
     last_error |-> error]

transition_error(row, scanned_at, error) ==
    [attempt_number |-> row.consecutive_failures + 1,
     backoff_seconds |-> backoff_for(row.consecutive_failures + 1),
     next_eligible_scan_at |->
         Some(scanned_at + backoff_for(row.consecutive_failures + 1) * TicksPerSecond),
     last_success_at |-> None,
     next_failure_count |-> row.consecutive_failures + 1,
     last_error |-> error]

skipped_backoff(next_eligible_previous, scanned_at) ==
    IF IsSet(next_eligible_previous)
    THEN Max(total_seconds_int(Val(next_eligible_previous) - scanned_at), 0)
    ELSE 0

transition_skipped_clears_error(row, scanned_at) ==
    [attempt_number |-> row.consecutive_failures + 1,
     backoff_seconds |-> skipped_backoff(row.next_eligible_scan_at, scanned_at),
     next_eligible_scan_at |-> row.next_eligible_scan_at,
     last_success_at |-> None,
     next_failure_count |-> row.consecutive_failures,
     last_error |-> None]

transition_skipped_carries_attempt(row, scanned_at) ==
    [attempt_number |-> Max(row.consecutive_failures, 1),
     backoff_seconds |-> skipped_backoff(row.next_eligible_scan_at, scanned_at),
     next_eligible_scan_at |-> row.next_eligible_scan_at,
     last_success_at |-> None,
     next_failure_count |-> row.consecutive_failures,
     last_error |-> row.last_error]

transition_skipped_counts_failure(row, scanned_at) ==
    [attempt_number |-> row.consecutive_failures + 1,
     backoff_seconds |-> skipped_backoff(row.next_eligible_scan_at, scanned_at),
     next_eligible_scan_at |-> row.next_eligible_scan_at,
     last_success_at |-> None,
     next_failure_count |-> row.consecutive_failures + 1,
     last_error |-> row.last_error]

transition_skipped(row, scanned_at) ==
    [attempt_number |-> row.consecutive_failures + 1,
     backoff_seconds |-> skipped_backoff(row.next_eligible_scan_at, scanned_at),
     next_eligible_scan_at |-> row.next_eligible_scan_at,
     last_success_at |-> None,
     next_failure_count |-> row.consecutive_failures,
     last_error |-> row.last_error]

scan_transition(row, scanned_at, status, error) ==
    CASE status = "ok" -> transition_ok(row, scanned_at)
      [] status = "error" -> transition_error(row, scanned_at, error)
      [] OTHER -> transition_skipped(row, scanned_at)

\* UPDATE job_sources SET ... WHERE source_id = ?
update_source_scan_state(row, scanned_at, status, tr, at) ==
    [row EXCEPT !.last_scan_at = Some(scanned_at),
                !.last_success_at =
                    IF IsSet(tr.last_success_at) THEN tr.last_success_at ELSE @,
                !.last_status = Some(status),
                !.last_error = tr.last_error,
                !.next_eligible_scan_at = tr.next_eligible_scan_at,
                !.consecutive_failures = tr.next_failure_count,
                !.updated_at = at]

history_row_failure_count(source_id, scanned_at, trigger, status, fetched, ingested, possible_duplicates, tr, respect_backoff, error) ==
    [source_id |-> source_id,
     scanned_at |-> scanned_at,
     trigger |-> trigger,
     status |-> status,
     fetched |-> fetched,
     ingested |-> ingested,
     possible_duplicates |-> possible_duplicates,
     attempt_number |-> tr.next_failure_count,
     backoff_seconds |-> tr.backoff_seconds,
     next_eligible_scan_at |-> tr.next_eligible_scan_at,
     respect_backoff |-> respect_backoff,
     error |-> error]

\* INSERT INTO job_source_scan_history
history_row_manual(source_id, scanned_at, trigger, status, fetched, ingested, possible_duplicates, tr, respect_backoff, error) ==
    [source_id |-> source_id,
     scanned_at |-> scanned_at,
     trigger |-> "manual",
     status |-> status,
     fetched |-> fetched,
     ingested |-> ingested,
     possible_duplicates |-> possible_duplicates,
     attempt_number |-> tr.attempt_number,
     backoff_seconds |-> tr.backoff_seconds,
     next_eligible_scan_at |-> tr.next_eligible_scan_at,
     respect_backoff |-> respect_backoff,
     error |-> error]

history_row(source_id, scanned_at, trigger, status, fetched, ingested, possible_duplicates, tr, respect_backoff, error) ==
    [source_id |-> source_id,
     scanned_at |-> scanned_at,
     trigger |-> trigger,
     status |-> status,
     fetched |-> fetched,
     ingested |-> ingested,
     possible_duplicates |-> possible_duplicates,
     attempt_number |-> tr.attempt_number,
     backoff_seconds |-> tr.backoff_seconds,
     next_eligible_scan_at |-> tr.next_eligible_scan_at,
     respect_backoff |-> respect_backoff,
     error |-> error]

\* JobSourceScanResult(...) returned to the caller
scan_result(source_id, scanned_at, trigger, status, fetched, ingested, possible_duplicates, tr, error) ==
    [source_id |-> source_id,
     scanned_at |-> scanned_at,
     trigger |-> IF trigger = "scheduled" THEN "scheduled" ELSE "manual",
     status |-> status,
     fetched |-> fetched,
     ingested |-> ingested,
     possible_duplicates |-> possible_duplicates,
     attempt_number |-> tr.attempt_number,
     backoff_seconds |-> tr.backoff_seconds,
     next_eligible_scan_at |-> tr.next_eligible_scan_at,
     error |-> error]

\* JobSourceScanBatchResponse(...) of the two batch endpoints
RECURSIVE count_status(_, _)
count_status(results, status) ==
    IF results = <<>> THEN 0
    ELSE (IF Head(results).status = status THEN 1 ELSE 0) + count_status(Tail(results), status)

RECURSIVE sum_ingested(_)
sum_ingested(results) ==
    IF results = <<>> THEN 0 ELSE Head(results).ingested + sum_ingested(Tail(results))

RECURSIVE sum_possible_duplicates(_)
sum_possible_duplicates(results) ==
    IF results = <<>> THEN 0
    ELSE Head(results).possible_duplicates + sum_possible_duplicates(Tail(results))

scan_batch_response(trigger, respect_backoff, requested_sources, results, at) ==
    [scanned_at |-> at,
     trigger |-> trigger,
     respect_backoff |-> respect_backoff,
     requested_sources |-> requested_sources,
     successful_sources |-> count_status(results, "ok"),
     failed_sources |-> count_status(results, "error"),
     skipped_sources |-> count_status(results, "skipped"),
     total_ingested |-> sum_ingested(results),
     possible_duplicates |-> sum_possible_duplicates(results),
     results |-> results]

(***************************************************************************)
(* Repository: job_postings.                                               *)
(***************************************************************************)
HasPosting(rows, id) == \E r \in rows : r.id = id

duplicate_hint_count_any_id(rows, dedup_key, id) ==
    Cardinality({r \in rows : r.dedup_key = dedup_key})

\* SELECT COUNT(1) FROM job_postings WHERE dedup_key = ? AND id != ?
duplicate_hint_count(rows, dedup_key, id) ==
    Cardinality({r \in rows : r.dedup_key = dedup_key /\ r.id # id})

\* One iteration of the loop of upsert_postings: the row written for a
\* posting, given the rows stored so far.
stored_row(rows, id, title, description, company, location, apply_url, source_id, external_id, dedup_key, at) ==
    [id |-> id,
     title |-> title,
     description |-> IF description # <<>> THEN description ELSE title,
     company |-> company,
     location |-> location,
     apply_url |-> apply_url,
     source_id |-> source_id,
     external_id |-> external_id,
     normalized_title |-> normalize_text(title),
     normalized_company |-> normalize_text(OrEmpty(company)),
     normalized_location |-> normalize_text(OrEmpty(location)),
     normalized_url |-> normalize_url(apply_url),
     dedup_key |-> dedup_key,
     duplicate_hint_count |-> duplicate_hint_count(rows, dedup_key, id),
     created_at |-> at,
     updated_at |-> at]

\* posting.dedup_key or build_dedup_key(title, company, location, apply_url)
dedup_key_for(given, title, company, location, apply_url) ==
    IF given # None /\ given # Some(<<>>)
    THEN Val(given)
    ELSE build_dedup_key(title, company, location, apply_url)

cleaned_row(rows, posting, title, company, location, apply_url, at) ==
    stored_row(rows, posting.id, title, normalize_whitespace(posting.description),
               company, location, apply_url,
               OrNone(strip(OrEmpty(posting.source_id))),
               OrNone(strip(OrEmpty(posting.external_id))),
               dedup_key_for(posting.dedup_key, title, company, location, apply_url),
               at)

posting_row(rows, posting, at) ==
    cleaned_row(rows, posting,
                normalize_whitespace(posting.title),
                OrNone(normalize_whitespace(OrEmpty(posting.company))),
                OrNone(normalize_whitespace(OrEmpty(posting.location))),
                OrNone(strip(OrEmpty(posting.apply_url))),
                at)

upsert_row_inserting(rows, new) == rows \cup {new}

upsert_row_merging(rows, new) ==
    {r \in rows : r.id # new.id /\ r.dedup_key # new.dedup_key} \cup {new}

\* An upsert that also counts the new row in the hints of the rows that
\* share its dedup key.
upsert_row_raising_hints(rows, new) ==
    {IF r.id # new.id /\ r.dedup_key = new.dedup_key
     THEN [r EXCEPT !.duplicate_hint_count = @ + 1] ELSE r :
        r \in {o \in rows : o.id # new.id}}
    \cup {IF HasPosting(rows, new.id)
          THEN [new EXCEPT !.created_at = (CHOOSE r \in rows : r.id = new.id).created_at]
          ELSE new}

\* INSERT ... ON CONFLICT(id) DO UPDATE SET every column but id, created_at
upsert_row(rows, new) ==
    IF HasPosting(rows, new.id)
    THEN LET old == CHOOSE r \in rows : r.id = new.id
         IN  (rows \ {old}) \cup {[new EXCEPT !.created_at = old.created_at]}
    ELSE rows \cup {new}

\* upsert_postings(postings, return_stats=True): the rows afterwards and
\* the UpsertSummary.
RECURSIVE upsert_loop(_, _, _, _)
upsert_step(rows, new, rest, at, possible_duplicates) ==
    upsert_loop(upsert_row(rows, new), rest, at,
                possible_duplicates + (IF new.duplicate_hint_count > 0 THEN 1 ELSE 0))

upsert_loop(rows, postings, at, possible_duplicates) ==
    IF postings = <<>>
    THEN [rows |-> rows, possible_duplicates |-> possible_duplicates]
    ELSE upsert_step(rows, posting_row(rows, Head(postings), at), Tail(postings), at,
                     possible_duplicates)

\* A summary whose updated is the size of the table after the upsert.
upsert_summary_counting_table(done, updated) ==
    [rows |-> done.rows, updated |-> Cardinality(done.rows),
     possible_duplicates |-> done.possible_duplicates]

upsert_summary(done, updated) ==
    [rows |-> done.rows, updated |-> updated,
     possible_duplicates |-> done.possible_duplicates]

upsert_postings(rows, postings, at) ==
    IF postings = <<>>
    THEN [rows |-> rows, updated |-> 0, possible_duplicates |-> 0]
    ELSE upsert_summary(upsert_loop(rows, postings, at, 0), Len(postings))

(***************************************************************************)
(* Scan engine: payload mapping.                                           *)
(***************************************************************************)
\* A payload is [kind: "dict" | "list" | "other", postings: Absent | JNull |
\* [tag |-> "list", v |-> items]]; for a "list" payload the items are in
\* postings.v.
raw_postings_of(payload) ==
    IF payload.kind = "dict"
    THEN (IF payload.postings.tag = "absent"
          THEN [tag |-> "list", v |-> <<>>] ELSE payload.postings)
    ELSE payload.postings

payload_error(payload) ==
    IF payload.kind \notin {"dict", "list"}
    THEN Some("Source payload must be a JSON object or list.")
    ELSE IF raw_postings_of(payload).tag # "list"
    THEN Some("Source payload postings must be a list.")
    ELSE None

\* The first of external_id, id that is not None and not blank.
id_candidate(field) ==
    IF field.tag \in {"null", "absent"} THEN <<>> ELSE strip(PyStrGet(field))

first_nonblank(a, b) == IF a # <<>> THEN Some(a) ELSE IF b # <<>> THEN Some(b) ELSE None

external_id_of_external_only(item) == first_nonblank(id_candidate(item.external_id), <<>>)

external_id_of(item) == first_nonblank(id_candidate(item.external_id), id_candidate(item.id))

\* The posting id of an item without external id: the digest of
\* source_id|title|description|company|location|apply_url|index|scan_marker
digest_id(source_id, title, description, company, location, apply_url, index, scanned_at) ==
    <<source_id, ":", ":">> \o
    sha1(join(<<<<source_id>>, title, description, OrEmpty(company),
                OrEmpty(location), OrEmpty(apply_url),
                <<ToString(index)>>, <<ToString(scanned_at)>>>>, <<"|">>))

\* The JobPosting made of one payload item (a dict with a title).
job_posting(source_id, title, description, company, location, apply_url, external_id, index, scanned_at) ==
    [id |-> IF external_id # None
            THEN <<source_id, ":", ":">> \o Val(external_id)
            ELSE digest_id(source_id, title, description, company, location,
                           apply_url, index, scanned_at),
     title |-> title,
     description |-> description,
     company |-> company,
     location |-> location,
     apply_url |-> apply_url,
     source_id |-> Some(<<source_id>>),
     external_id |-> external_id,
     updated_at |-> Some(scanned_at),
     dedup_key |-> Some(build_dedup_key(title, company, location, apply_url)),
     duplicate_hint_count |-> 0]

\* A mapping that keeps an item without title under a placeholder.
item_title_or_placeholder(item) ==
    IF normalize_whitespace(strip(PyStrGet(item.title))) = <<>>
    THEN <<"?">>
    ELSE normalize_whitespace(strip(PyStrGet(item.title)))

item_title(item) == normalize_whitespace(strip(PyStrGet(item.title)))

or_title(description, title) == IF description # <<>> THEN description ELSE title

posting_of_item(source_id, item, index, scanned_at) ==
    job_posting(source_id,
                item_title(item),
                or_title(normalize_whitespace(strip(PyStrGet(item.description))),
                         item_title(item)),
                OrNone(normalize_whitespace(strip(PyStrGet(item.company)))),
                OrNone(normalize_whitespace(strip(PyStrGet(item.location)))),
                OrNone(strip(PyStrGet(item.apply_url))),
                external_id_of(item),
                index, scanned_at)

RECURSIVE map_items(_, _, _, _)
map_items(source_id, items, index, scanned_at) ==
    IF index > Len(items) THEN <<>>
    ELSE (IF items[index].kind = "dict" /\ item_title(items[index]) # <<>>
          THEN <<posting_of_item(source_id, items[index], index, scanned_at)>>
          ELSE <<>>)
         \o map_items(source_id, items, index + 1, scanned_at)

\* to_job_postings_from_payload, for a payload without payload_error
to_job_postings_from_payload(source_id, payload, scanned_at) ==
    map_items(source_id, raw_postings_of(payload).v, 1, scanned_at)

(***************************************************************************)
(* Recommender: tokenize, rank_postings and the preferences.               *)
(* A score is a whole number of ten-thousandths, the precision of          *)
(* round(score, 4); a ratio is kept as <<numerator, denominator>>.         *)
(***************************************************************************)
Punctuation == {".", ",", "!", "?", ";", ":", "\"", "'", "(", ")", "[", "]", "{", "}"}

RECURSIVE lstrip_chars(_, _)
lstrip_chars(text, set) ==
    IF text # <<>> /\ Head(text) \in set THEN lstrip_chars(Tail(text), set) ELSE text

RECURSIVE rstrip_chars(_, _)
rstrip_chars(text, set) ==
    IF text # <<>> /\ text[Len(text)] \in set
    THEN rstrip_chars(SubSeq(text, 1, Len(text) - 1), set) ELSE text

Range(seq) == {seq[i] : i \in DOMAIN seq}

\* {token.strip(punctuation) for token in text.lower().split() if token.strip()}
tokenize(text) ==
    {rstrip_chars(lstrip_chars(token, Punctuation), Punctuation) :
        token \in Range(split_ws(lower(text), <<>>, <<>>))}

\* _token_overlap, as a ratio
token_overlap(reference, candidates) ==
    IF candidates = {} THEN <<0, 1>>
    ELSE <<Cardinality(reference \cap candidates), Cardinality(candidates)>>

\* pattern in text
contains(text, pattern) ==
    \E i \in 1..(Len(text) - Len(pattern) + 1) :
        SubSeq(text, i, i + Len(pattern) - 1) = pattern

ScoreScale == 10000

\* round(x, 4) of num / den, in ten-thousandths
round4(num, den) == (2 * ScoreScale * num + den) \div (2 * den)

\* _freshness_bonus(updated_at), read at the instant `at`
freshness_bonus(updated_at, at) ==
    IF updated_at = None THEN 0
    ELSE IF at - Val(updated_at) <= 24 * 3600 * TicksPerSecond THEN 600
    ELSE IF at - Val(updated_at) <= 72 * 3600 * TicksPerSecond THEN 300
    ELSE IF at - Val(updated_at) <= 168 * 3600 * TicksPerSecond THEN 100
    ELSE 0

duplicate_penalty_uncapped(count) == 200 * count

\* min(0.02 * posting.duplicate_hint_count, 0.08)
duplicate_penalty(count) == Min(200 * count, 800)

remote_signal(posting) ==
    contains(normalize_text(OrEmpty(posting.location) \o <<" ">> \o posting.title
                            \o <<" ">> \o posting.description),
             <<"r", "e", "m", "o", "t", "e">>)

preference_bonus_no_penalty(posting, preferred_locations, preferred_companies, remote_only) ==
    (IF /\ normalize_text(OrEmpty(posting.company)) # <<>>
        /\ normalize_text(OrEmpty(posting.company)) \in
               {normalize_text(v) : v \in Range(preferred_companies)}
     THEN 800 ELSE 0)
    + (IF /\ normalize_text(OrEmpty(posting.location)) # <<>>
          /\ normalize_text(OrEmpty(posting.location)) \in
                 {normalize_text(v) : v \in Range(preferred_locations)}
       THEN 800 ELSE 0)
    + (IF remote_only /\ remote_signal(posting) THEN 800 ELSE 0)

preference_bonus(posting, preferred_locations, preferred_companies, remote_only) ==
    (IF /\ normalize_text(OrEmpty(posting.company)) # <<>>
        /\ normalize_text(OrEmpty(posting.company)) \in
               {normalize_text(v) : v \in Range(preferred_companies)}
     THEN 800 ELSE 0)
    + (IF /\ normalize_text(OrEmpty(posting.location)) # <<>>
          /\ normalize_text(OrEmpty(posting.location)) \in
                 {normalize_text(v) : v \in Range(preferred_locations)}
       THEN 800 ELSE 0)
    + (IF remote_only THEN (IF remote_signal(posting) THEN 800 ELSE -500) ELSE 0)

\* 0.55 * title + 0.35 * description + 0.10 * keyword + bonuses - penalty,
\* max(score, 0.0), round(score, 4)
final_score(title, description, keyword, bonus) ==
    IF (5500 * title[1] * description[2] * keyword[2]
        + 3500 * description[1] * title[2] * keyword[2]
        + 1000 * keyword[1] * title[2] * description[2]
        + bonus * title[2] * description[2] * keyword[2]) <= 0
    THEN 0
    ELSE (2 * (5500 * title[1] * description[2] * keyword[2]
               + 3500 * description[1] * title[2] * keyword[2]
               + 1000 * keyword[1] * title[2] * description[2]
               + bonus * title[2] * description[2] * keyword[2])
          + title[2] * description[2] * keyword[2])
         \div (2 * title[2] * description[2] * keyword[2])

\* RankedRecommendation with its ScoreBreakdown; matched_terms is kept as
\* the set of terms (fewer than 12 here).
ranked_item(posting, title, description, keyword, bonus, freshness, penalty, matched) ==
    [id |-> posting.id,
     title |-> posting.title,
     company |-> posting.company,
     location |-> posting.location,
     apply_url |-> posting.apply_url,
     score |-> final_score(title, description, keyword, bonus + freshness - penalty),
     matched_terms |-> matched,
     score_breakdown |->
         [title_overlap |-> round4(title[1], title[2]),
          description_overlap |-> round4(description[1], description[2]),
          preferred_keyword_overlap |-> round4(keyword[1], keyword[2]),
          preference_bonus |-> bonus,
          freshness_bonus |-> freshness,
          duplicate_penalty |-> penalty,
          final_score |-> final_score(title, description, keyword,
                                      bonus + freshness - penalty)]]

all_job_tokens(posting) ==
    tokenize(posting.title) \cup tokenize(posting.description)
        \cup tokenize(OrEmpty(posting.company))

\* The body of the loop of rank_postings
rank_one(resume_tokens, keyword_tokens, posting, preferred_locations, preferred_companies, remote_only, at) ==
    ranked_item(posting,
                token_overlap(resume_tokens, tokenize(posting.title)),
                token_overlap(resume_tokens, tokenize(posting.description)),
                token_overlap(keyword_tokens, all_job_tokens(posting)),
                preference_bonus(posting, preferred_locations, preferred_companies,
                                 remote_only),
                freshness_bonus(posting.updated_at, at),
                duplicate_penalty(posting.duplicate_hint_count),
                resume_tokens \cap all_job_tokens(posting))

\* ranked.sort(key=lambda item: item.score, reverse=True): stable
RECURSIVE insert_ascending(_, _)
insert_ascending(sorted, item) ==
    IF sorted = <<>> THEN <<item>>
    ELSE IF Head(sorted).score <= item.score
         THEN <<Head(sorted)>> \o insert_ascending(Tail(sorted), item)
         ELSE <<item>> \o sorted

RECURSIVE insert_by_score(_, _)
insert_by_score(sorted, item) ==
    IF sorted = <<>> THEN <<item>>
    ELSE IF Head(sorted).score >= item.score
         THEN <<Head(sorted)>> \o insert_by_score(Tail(sorted), item)
         ELSE <<item>> \o sorted

RECURSIVE sort_by_score(_, _)
sort_by_score(sorted, items) ==
    IF items = <<>> THEN sorted
    ELSE sort_by_score(insert_by_score(sorted, Head(items)), Tail(items))

rank_postings(resume_text, postings, preferred_keywords, preferred_locations, preferred_companies, remote_only, at) ==
    sort_by_score(<<>>,
        [i \in DOMAIN postings |->
            rank_one(tokenize(resume_text),
                     tokenize(join(preferred_keywords, <<" ">>)),
                     postings[i], preferred_locations, preferred_companies,
                     remote_only, at)])

\* A resolution that lets the profile win over the request.
resolve_profile_first(payload, profile) ==
    IF profile = None
    THEN [preferred_keywords |-> payload.preferred_keywords,
          preferred_locations |-> payload.preferred_locations,
          preferred_companies |-> payload.preferred_companies,
          remote_only |-> payload.remote_only = Some(TRUE)]
    ELSE [preferred_keywords |-> Val(profile).preferred_keywords,
          preferred_locations |-> Val(profile).preferred_locations,
          preferred_companies |-> Val(profile).preferred_companies,
          remote_only |-> Val(profile).remote_only]

\* resolve_recommendation_preferences(payload, profile)
resolve_recommendation_preferences(payload, profile) ==
    [preferred_keywords |->
         IF payload.preferred_keywords # <<>> THEN payload.preferred_keywords
         ELSE IF profile = None THEN <<>> ELSE Val(profile).preferred_keywords,
     preferred_locations |->
         IF payload.preferred_locations # <<>> THEN payload.preferred_locations
         ELSE IF profile = None THEN <<>> ELSE Val(profile).preferred_locations,
     preferred_companies |->
         IF payload.preferred_companies # <<>> THEN payload.preferred_companies
         ELSE IF profile = None THEN <<>> ELSE Val(profile).preferred_companies,
     remote_only |->
         IF payload.remote_only # None THEN Val(payload.remote_only)
         ELSE IF profile = None THEN FALSE ELSE Val(profile).remote_only]

(***************************************************************************)
(* Repository: list_postings, recommendation runs, user_profiles.          *)
(***************************************************************************)
\* SELECT ... FROM job_postings ORDER BY updated_at DESC LIMIT ?: the lists
\* the query may give; rows with one updated_at come in any order.
orderings(rows) ==
    {order \in [1..Cardinality(rows) -> rows] :
        /\ \A i, j \in DOMAIN order : i < j => order[i] # order[j]
        /\ \A i, j \in DOMAIN order : i < j => order[i].updated_at >= order[j].updated_at}

\* A listing that gives the rows updated longest ago first.
list_postings_oldest_first(rows, limit) ==
    {[i \in 1..Min(limit, Len(order)) |-> order[Len(order) + 1 - i]] :
        order \in orderings(rows)}

list_postings(rows, limit) ==
    {SubSeq(order, 1, Min(limit, Len(order))) : order \in orderings(rows)}

\* JobPosting(id=posting.id, ...) of recommend, from a StoredPosting
job_posting_of_stored(row) ==
    [id |-> row.id, title |-> row.title, description |-> row.description,
     company |-> row.company, location |-> row.location,
     apply_url |-> row.apply_url, source_id |-> row.source_id,
     external_id |-> row.external_id, updated_at |-> Some(row.updated_at),
     dedup_key |-> Some(row.dedup_key),
     duplicate_hint_count |-> row.duplicate_hint_count]

\* A run that takes the id of the newest run there is.
recommendation_run_reusing_id(runs, resume_text, recommendations, at) ==
    [run_id |-> Max(Len(runs), 1),
     resume_text |-> resume_text,
     generated_at |-> at,
     items |-> [rank \in DOMAIN recommendations |->
                   [job_id |-> recommendations[rank].id,
                    title |-> recommendations[rank].title,
                    score |-> recommendations[rank].score,
                    rank |-> rank]]]

\* record_recommendations: one run with its items, run_id = lastrowid
recommendation_run(runs, resume_text, recommendations, at) ==
    [run_id |-> Len(runs) + 1,
     resume_text |-> resume_text,
     generated_at |-> at,
     items |-> [rank \in DOMAIN recommendations |->
                   [job_id |-> recommendations[rank].id,
                    title |-> recommendations[rank].title,
                    score |-> recommendations[rank].score,
                    rank |-> rank]]]

\* UserProfileUpsertRequest.config_json: blank values dropped, the others
\* whitespace-normalised
RECURSIVE cleaned_values(_)
cleaned_values(values) ==
    IF values = <<>> THEN <<>>
    ELSE (IF strip(Head(values)) = <<>> THEN <<>>
          ELSE <<normalize_whitespace(Head(values))>>) \o cleaned_values(Tail(values))

HasProfile(rows, profile_id) == \E r \in rows : r.profile_id = profile_id
ProfileRow(rows, profile_id) == CHOOSE r \in rows : r.profile_id = profile_id

new_profile_row(payload, at) ==
    [profile_id |-> payload.profile_id,
     name |-> payload.name,
     preferred_keywords |-> cleaned_values(payload.preferred_keywords),
     preferred_locations |-> cleaned_values(payload.preferred_locations),
     preferred_companies |-> cleaned_values(payload.preferred_companies),
     remote_only |-> payload.remote_only,
     created_at |-> at,
     updated_at |-> at]

\* INSERT ... ON CONFLICT(profile_id) DO UPDATE SET name, config_json,
\* updated_at
upsert_user_profile(rows, payload, at) ==
    IF HasProfile(rows, payload.profile_id)
    THEN (rows \ {ProfileRow(rows, payload.profile_id)}) \cup
         {[new_profile_row(payload, at) EXCEPT
              !.created_at = ProfileRow(rows, payload.profile_id).created_at]}
    ELSE rows \cup {new_profile_row(payload, at)}

get_user_profile_lenient(rows, profile_id) ==
    IF rows = {} THEN None ELSE Some(CHOOSE r \in rows : TRUE)

get_user_profile(rows, profile_id) ==
    IF HasProfile(rows, profile_id) THEN Some(ProfileRow(rows, profile_id)) ELSE None

delete_user_profile(rows, profile_id) == {r \in rows : r.profile_id # profile_id}

(***************************************************************************)
(* Inputs.                                                                 *)
(***************************************************************************)
Threads == {1, 2}

TitleBe == <<"B", "e">>
TitleBeLoud == <<"B", "E", "!">>
UrlA == <<"x", ":", "/", "/", "A", "/", "b">>

\* IngestedPosting values of inline sources
IngestExt ==
    [id |-> None, external_id |-> Some(<<"x", "1">>), title |-> TitleBe,
     description |-> <<>>, company |-> None, location |-> None, apply_url |-> None]
IngestNoExt ==
    [id |-> None, external_id |-> None, title |-> TitleBe,
     description |-> <<"o", "m">>, company |-> Some(<<"C", "o">>),
     location |-> None, apply_url |-> None]

\* JobSourceUpsertRequest values
SourceRequests ==
    {[source_id |-> "s1", name |-> "A", source_type |-> "json_url",
      enabled |-> TRUE, postings |-> <<>>, url |-> Some(UrlA)],
     [source_id |-> "s1", name |-> "B", source_type |-> "inline_json",
      enabled |-> FALSE, postings |-> <<IngestExt>>, url |-> None],
     [source_id |-> "s2", name |-> "C", source_type |-> "inline_json",
      enabled |-> TRUE, postings |-> <<IngestNoExt>>, url |-> None]}

\* Bodies of POST /job-sources without the configuration of their type
InvalidSourceRequests ==
    {[source_id |-> "s1", name |-> "D", source_type |-> "inline_json",
      enabled |-> TRUE, postings |-> <<>>, url |-> Some(UrlA)],
     [source_id |-> "s1", name |-> "E", source_type |-> "json_url",
      enabled |-> TRUE, postings |-> <<IngestExt>>, url |-> None]}

\* What urlopen + json.loads may give for a json_url source
ItemRemote ==
    [kind |-> "dict", id |-> Str(<<"1">>), external_id |-> Absent,
     title |-> Str(TitleBeLoud), description |-> Absent, company |-> Absent,
     location |-> Absent, apply_url |-> Str(UrlA)]
NetworkOutcomes ==
    {[ok |-> FALSE, error |-> "upstream unavailable", payload |-> None],
     [ok |-> TRUE, error |-> "",
      payload |-> Some([kind |-> "dict",
                        postings |-> [tag |-> "list", v |-> <<ItemRemote>>]])]}

\* Later answers of the same URL: the item of ItemRemote under the same
\* identity with another title, and a second item
ItemChanged ==
    [ItemRemote EXCEPT !.id = Absent, !.external_id = Str(<<" ", "1">>),
                       !.title = Str(TitleBe), !.company = Str(<<"C", "o">>)]
ItemSecond == [ItemRemote EXCEPT !.id = Str(<<"2">>)]
RescanOutcomes ==
    NetworkOutcomes \cup
    {[ok |-> TRUE, error |-> "",
      payload |-> Some([kind |-> "dict",
                        postings |-> [tag |-> "list", v |-> <<ItemChanged, ItemSecond>>]])]}

\* Answers that make the fetch or the mapping fail: a body that is not
\* JSON, a JSON number, an object whose postings is null
FailingOutcomes ==
    {[ok |-> FALSE, error |-> "Expecting value: line 1 column 1 (char 0)", payload |-> None],
     [ok |-> TRUE, error |-> "", payload |-> Some([kind |-> "other", postings |-> JNull])],
     [ok |-> TRUE, error |-> "", payload |-> Some([kind |-> "dict", postings |-> JNull])]}

\* JobPosting values of POST /postings
JobPostingA ==
    [id |-> <<"j", "1">>, title |-> TitleBe, description |-> <<"o", "m">>,
     company |-> None, location |-> None, apply_url |-> None,
     source_id |-> None, external_id |-> None, updated_at |-> None,
     dedup_key |-> None, duplicate_hint_count |-> 0]
JobPostingA2 ==
    [JobPostingA EXCEPT !.title = <<"M", "e", " ", " ", "t">>,
                        !.description = <<>>,
                        !.company = Some(<<"C", "o">>)]
JobPostingB == [JobPostingA EXCEPT !.id = <<"j", "2">>, !.title = TitleBeLoud]
PostingBatches ==
    {<<JobPostingA>>, <<JobPostingA2, JobPostingB>>, <<JobPostingA, JobPostingB>>}

\* UserProfileUpsertRequest and RecommendRequest values
ProfileRequests ==
    {[profile_id |-> "p1", name |-> "P", preferred_keywords |-> <<<<"o", "m">>>>,
      preferred_locations |-> <<>>, preferred_companies |-> <<<<"C", "o">>, <<" ">>>>,
      remote_only |-> TRUE]}
ProfileIds == {"p1", "p2"}

ResumeText == <<"b", "e", " ", "o", "m", " ", "c", "o", " ", "r", "e", "m", "o", "t", "e", " ", "t", " ", "m", "e">>
RecommendBase ==
    [resume_text |-> ResumeText, postings |-> <<>>, max_postings |-> 1,
     profile_id |-> None, preferred_keywords |-> <<>>,
     preferred_locations |-> <<>>, preferred_companies |-> <<>>,
     remote_only |-> None]
RecommendRequests ==
    {RecommendBase,
     [RecommendBase EXCEPT !.max_postings = 2, !.profile_id = Some("p1")],
     [RecommendBase EXCEPT !.postings = <<JobPostingA2, JobPostingB, JobPostingA>>],
     [RecommendBase EXCEPT !.postings = <<JobPostingB>>, !.profile_id = Some("p2")],
     [RecommendBase EXCEPT !.postings = <<JobPostingA>>, !.profile_id = Some("")]}

\* The query parameter respect_backoff of the two manual scan endpoints,
\* bool = Query(default=False): absent, false or true
BackoffQueries == {None, Some(FALSE), Some(TRUE)}
respect_backoff_of(query) == IF query = None THEN FALSE ELSE Val(query)

\* Postings and a request that reach the corners of the score: an overlap
\* of one third, a duplicate_hint_count above the cap of the penalty, and a
\* sum below zero
PostingThirds ==
    [JobPostingA EXCEPT !.id = <<"j", "3">>,
                        !.title = <<"B", "e", " ", "x", " ", "n">>,
                        !.description = <<"x">>,
                        !.duplicate_hint_count = 5]
PostingNoMatch ==
    [JobPostingA EXCEPT !.id = <<"j", "4">>, !.title = <<"x">>, !.description = <<"n">>,
                        !.duplicate_hint_count = 4]
\* The same postings with a location that says remote
Remote(posting) ==
    [posting EXCEPT !.id = @ \o <<"r">>,
                    !.location = Some(<<"R", "e", "m", "o", "t", "e">>)]
RankingRequests ==
    {payload \in RecommendRequests : payload.profile_id \in {None, Some("p1")}} \cup
    {[RecommendBase EXCEPT !.postings = <<PostingNoMatch, PostingThirds>>,
                           !.remote_only = Some(TRUE)]}
\* Requests that rank each of the two next to its remote twin, remote_only
\* asked for by the request or by the profile
RemoteRequests ==
    {[RecommendBase EXCEPT !.postings = <<PostingNoMatch, PostingThirds,
                                         Remote(PostingThirds), Remote(PostingNoMatch)>>,
                           !.remote_only = Some(TRUE)],
     [RecommendBase EXCEPT !.postings = <<Remote(PostingThirds), PostingThirds>>,
                           !.profile_id = Some("p1")]}

\* Requests with and without the profile p1 that leave the preferences to
\* the profile, or give their own
PreferenceBase == [RecommendBase EXCEPT !.postings = <<JobPostingA2, PostingThirds>>]
OwnPreferences ==
    [PreferenceBase EXCEPT !.preferred_keywords = <<<<"n">>>>,
                           !.preferred_locations = <<<<"x">>>>,
                           !.preferred_companies = <<<<"x">>>>,
                           !.remote_only = Some(FALSE)]
PreferenceRequests ==
    {PreferenceBase, OwnPreferences,
     [PreferenceBase EXCEPT !.profile_id = Some("p1")],
     [OwnPreferences EXCEPT !.profile_id = Some("p1")]}

\* Clock advances: to one tick before a first backoff window ends, and to
\* its end.
ClockSteps == {BackoffBase * TicksPerSecond - 1, BackoffBase * TicksPerSecond}

(***************************************************************************)
(* State.                                                                  *)
(***************************************************************************)
NoSummary == [updated |-> 0, possible_duplicates |-> 0]

\* create_app without api_key and api_tokens and with an empty environment
NoEnvTokens == [token \in {} |-> {}]

\* DigestWorker.run suspended in queue.get(); unfinished_tasks is the
\* queue's count of items put and not yet marked done
WorkerWaiting == [pc |-> "get", job |-> None, unfinished_tasks |-> 0, sent |-> <<>>]

Idle(response, result) ==
    [pc |-> "idle", queue |-> <<>>, scanned_at |-> 0, trigger |-> "manual",
     respect_backoff |-> FALSE, single |-> FALSE, postings |-> <<>>,
     summary |-> NoSummary, error |-> None, fetched |-> FALSE,
     result |-> result, results |-> <<>>, response |-> response,
     request |-> None, profile |-> None, ranked |-> <<>>, source |-> "payload",
     recommended |-> None, targets |-> <<>>, batch |-> None,
     api_key |-> "", operation |-> None, token_context |-> None]

Init ==
    /\ now = 0
    /\ job_sources = {}
    /\ job_postings = {}
    /\ scan_history = <<>>
    /\ th = [t \in Threads |-> Idle("none", None)]
    /\ attempts = [s \in SourceIds |-> 0]
    /\ started = 0
    /\ ticked = 0
    /\ recommendation_runs = <<>>
    /\ user_profiles = {}
    /\ api_tokens = {}
    /\ auth_token_scopes = NoEnvTokens
    /\ digest_queue = <<>>
    /\ digest_worker = WorkerWaiting

\* The source a thread is scanning: the snapshot its handler read.
Source(t) == Head(th[t].queue)

InScan(t) == th[t].pc \in {"record_skipped", "load", "upsert", "record_ok", "record_error"}

(***************************************************************************)
(* Actions.                                                                *)
(***************************************************************************)
\* A request is handled by the first idle worker thread.
CanStart(t, limit) ==
    /\ th[t].pc = "idle"
    /\ \A u \in Threads : u < t => th[u].pc # "idle"
    /\ started < limit

\* The clock advances.
Tick(limit) ==
    /\ ticked < limit
    /\ \E d \in ClockSteps : now' = now + d
    /\ ticked' = ticked + 1
    /\ UNCHANGED <<job_sources, job_postings, scan_history, th, attempts, started,
                   recommendation_runs, user_profiles,
                   auth_vars, emailer_vars>>

\* POST /job-sources: the body is validated before the handler runs
UpsertJobSource(t, payload, limit) ==
    /\ CanStart(t, limit)
    /\ job_sources' = IF validate_source_config(payload)
                      THEN upsert_job_source(job_sources, payload, now)
                      ELSE job_sources
    /\ th' = [th EXCEPT ![t] =
                Idle(IF validate_source_config(payload) THEN "200" ELSE "422", None)]
    /\ started' = started + 1
    /\ UNCHANGED <<now, job_postings, scan_history, attempts, ticked,
                   recommendation_runs, user_profiles,
                   auth_vars, emailer_vars>>

\* POST /postings
UpsertPostings(t, batch, limit) ==
    /\ CanStart(t, limit)
    /\ job_postings' = upsert_postings(job_postings, batch, now).rows
    /\ th' = [th EXCEPT ![t] = Idle("200", None)]
    /\ started' = started + 1
    /\ UNCHANGED <<now, job_sources, scan_history, attempts, ticked,
                   recommendation_runs, user_profiles,
                   auth_vars, emailer_vars>>

\* POST /job-sources/{source_id}/scan: get_job_source, 404 when unknown
StartScanOne(t, source_id, respect_backoff, limit) ==
    /\ CanStart(t, limit)
    /\ started' = started + 1
    /\ LET source == get_job_source(job_sources, source_id)
       IN  th' = [th EXCEPT ![t] =
                    IF source = None THEN Idle("404", None)
                    ELSE [Idle("none", None) EXCEPT
                            !.pc = "scan", !.queue = <<Val(source)>>,
                            !.trigger = "manual", !.single = TRUE,
                            !.respect_backoff = respect_backoff]]
    /\ UNCHANGED <<now, job_sources, job_postings, scan_history, attempts, ticked,
                   recommendation_runs, user_profiles,
                   auth_vars, emailer_vars>>

\* POST /job-sources/scan and POST /job-sources/scan/scheduled:
\* list_scan_targets(respect_backoff=False), then scan_source for each
StartScanBatch(t, trigger, enabled_only, respect_backoff, limit) ==
    /\ CanStart(t, limit)
    /\ started' = started + 1
    /\ LET sources == list_scan_targets(job_sources, enabled_only, FALSE, now)
       IN  th' = [th EXCEPT ![t] =
                    IF sources = <<>>
                    THEN [Idle("200", None) EXCEPT
                            !.trigger = trigger, !.respect_backoff = respect_backoff,
                            !.batch = Some(scan_batch_response(trigger, respect_backoff,
                                                               0, <<>>, now))]
                    ELSE [Idle("none", None) EXCEPT
                            !.pc = "scan", !.queue = sources,
                            !.targets = [i \in DOMAIN sources |-> sources[i].source_id],
                            !.trigger = trigger, !.single = FALSE,
                            !.respect_backoff = respect_backoff]]
    /\ UNCHANGED <<now, job_sources, job_postings, scan_history, attempts, ticked,
                   recommendation_runs, user_profiles,
                   auth_vars, emailer_vars>>

StartScanAll(t, enabled_only, respect_backoff, limit) ==
    StartScanBatch(t, "manual", enabled_only, respect_backoff, limit)

StartScanScheduled(t, enabled_only, limit) ==
    StartScanBatch(t, "scheduled", enabled_only, TRUE, limit)

\* scan_source, up to the backoff decision
in_backoff(source, respect_backoff, scanned_at) ==
    /\ respect_backoff
    /\ IsSet(source.next_eligible_scan_at)
    /\ Val(source.next_eligible_scan_at) > scanned_at

ScanBegin(t) ==
    /\ th[t].pc = "scan"
    /\ th' = [th EXCEPT ![t].scanned_at = now,
                        ![t].fetched = FALSE,
                        ![t].postings = <<>>,
                        ![t].summary = NoSummary,
                        ![t].error = None,
                        ![t].pc = IF in_backoff(Source(t), th[t].respect_backoff, now)
                                  THEN "record_skipped" ELSE "load"]
    /\ attempts' = [attempts EXCEPT ![Source(t).source_id] = @ + 1]
    /\ UNCHANGED <<now, job_sources, job_postings, scan_history, started, ticked,
                   recommendation_runs, user_profiles,
                   auth_vars, emailer_vars>>

\* load_source_payload and to_job_postings_from_payload: what the try
\* block gets, as [error, postings]
mapped(source_id, payload, scanned_at) ==
    IF payload_error(payload) # None
    THEN [error |-> payload_error(payload), postings |-> <<>>]
    ELSE [error |-> None,
          postings |-> to_job_postings_from_payload(source_id, payload, scanned_at)]

loaded(source, outcome, scanned_at) ==
    IF source.source_type = "inline_json"
    THEN mapped(source.source_id,
                [kind |-> "list",
                 postings |-> [tag |-> "list",
                               v |-> IF source.config.postings = None THEN <<>>
                                     ELSE Val(source.config.postings)]],
                scanned_at)
    ELSE IF strip(OrEmpty(source.config.url)) = <<>>
    THEN [error |-> Some("Missing url in job source config."), postings |-> <<>>]
    ELSE IF ~outcome.ok
    THEN [error |-> Some(outcome.error), postings |-> <<>>]
    ELSE mapped(source.source_id, Val(outcome.payload), scanned_at)

after_load(l, got) ==
    [l EXCEPT !.fetched = TRUE,
              !.error = got.error,
              !.postings = got.postings,
              !.pc = IF got.error = None THEN "upsert" ELSE "record_error"]

Load(t, outcome) ==
    /\ th[t].pc = "load"
    /\ th' = [th EXCEPT ![t] = after_load(th[t], loaded(Source(t), outcome,
                                                         th[t].scanned_at))]
    /\ UNCHANGED <<now, job_sources, job_postings, scan_history, attempts, started, ticked,
                   recommendation_runs, user_profiles,
                   auth_vars, emailer_vars>>

\* repository.upsert_postings(postings, return_stats=True) of scan_source
after_upsert(l, done) ==
    [l EXCEPT !.summary = [updated |-> done.updated,
                           possible_duplicates |-> done.possible_duplicates],
              !.pc = "record_ok"]

Upserted(t, done) ==
    /\ job_postings' = done.rows
    /\ th' = [th EXCEPT ![t] = after_upsert(th[t], done)]

UpsertScanned(t) ==
    /\ th[t].pc = "upsert"
    /\ Upserted(t, upsert_postings(job_postings, th[t].postings, now))
    /\ UNCHANGED <<now, job_sources, scan_history, attempts, started, ticked,
                   recommendation_runs, user_profiles,
                   auth_vars, emailer_vars>>

\* What the handler does with the result of scan_source.
\* A batch handler that gives up at the first source in error.
after_scan_stopping(l, result, at) ==
    LET results == Append(l.results, result)
    IN  IF Len(l.queue) > 1 /\ result.status # "error"
        THEN [l EXCEPT !.pc = "scan", !.queue = Tail(l.queue),
                       !.result = Some(result), !.results = results]
        ELSE [Idle(IF l.single /\ result.status = "error" THEN "502" ELSE "200",
                   Some(result))
                EXCEPT !.results = results, !.trigger = l.trigger,
                       !.respect_backoff = l.respect_backoff,
                       !.targets = l.targets,
                       !.batch = IF l.single THEN None
                                 ELSE Some(scan_batch_response(l.trigger, l.respect_backoff,
                                                               Len(l.targets), results, at))]

after_scan(l, result, at) ==
    LET results == Append(l.results, result)
    IN  IF Len(l.queue) > 1
        THEN [l EXCEPT !.pc = "scan", !.queue = Tail(l.queue),
                       !.result = Some(result), !.results = results]
        ELSE [Idle(IF l.single /\ result.status = "error" THEN "502" ELSE "200",
                   Some(result))
                EXCEPT !.results = results, !.trigger = l.trigger,
                       !.respect_backoff = l.respect_backoff,
                       !.targets = l.targets,
                       !.batch = IF l.single THEN None
                                 ELSE Some(scan_batch_response(l.trigger, l.respect_backoff,
                                                               Len(l.targets), results, at))]

\* repository.record_job_source_scan_result
Record(t, status, fetched, ingested, possible_duplicates, error) ==
    LET l == th[t]
        source_id == Source(t).source_id
        row == SourceRow(job_sources, source_id)
        tr == scan_transition(row, l.scanned_at, status, error)
        result == scan_result(source_id, l.scanned_at, l.trigger, status, fetched,
                              ingested, possible_duplicates, tr, error)
    IN  /\ HasSource(job_sources, source_id)
        /\ job_sources' = (job_sources \ {row}) \cup
                          {update_source_scan_state(row, l.scanned_at, status, tr, now)}
        /\ scan_history' = Append(scan_history,
                                  history_row(source_id, l.scanned_at, l.trigger, status,
                                              fetched, ingested, possible_duplicates, tr,
                                              l.respect_backoff, error))
        /\ th' = [th EXCEPT ![t] = after_scan(l, result, now)]
        /\ UNCHANGED <<now, job_postings, attempts, started, ticked,
                       recommendation_runs, user_profiles,
                   auth_vars, emailer_vars>>

RecordSkipped(t) ==
    /\ th[t].pc = "record_skipped"
    /\ Record(t, "skipped", 0, 0, 0, None)

RecordOk(t) ==
    /\ th[t].pc = "record_ok"
    /\ Record(t, "ok", Len(th[t].postings), th[t].summary.updated,
              th[t].summary.possible_duplicates, None)

RecordError(t) ==
    /\ th[t].pc = "record_error"
    /\ Record(t, "error", 0, 0, 0, th[t].error)

\* POST /profiles and DELETE /profiles/{profile_id}
UpsertUserProfile(t, payload, limit) ==
    /\ CanStart(t, limit)
    /\ user_profiles' = upsert_user_profile(user_profiles, payload, now)
    /\ th' = [th EXCEPT ![t] = Idle("200", None)]
    /\ started' = started + 1
    /\ UNCHANGED <<now, job_sources, job_postings, scan_history, attempts, ticked,
                   recommendation_runs,
                   auth_vars, emailer_vars>>

DeleteUserProfile(t, profile_id, limit) ==
    /\ CanStart(t, limit)
    /\ user_profiles' = delete_user_profile(user_profiles, profile_id)
    /\ th' = [th EXCEPT ![t] =
                Idle(IF HasProfile(user_profiles, profile_id) THEN "200" ELSE "404", None)]
    /\ started' = started + 1
    /\ UNCHANGED <<now, job_sources, job_postings, scan_history, attempts, ticked,
                   recommendation_runs,
                   auth_vars, emailer_vars>>

\* POST /recommend: get_user_profile, 404 when the profile_id is unknown
\* if payload.profile_id: neither None nor the empty string
given(profile_id) == profile_id # None /\ Val(profile_id) # ""

StartRecommend(t, payload, limit) ==
    /\ CanStart(t, limit)
    /\ started' = started + 1
    /\ th' = [th EXCEPT ![t] =
                IF /\ given(payload.profile_id)
                   /\ get_user_profile(user_profiles, Val(payload.profile_id)) = None
                THEN Idle("404", None)
                ELSE [Idle("none", None) EXCEPT
                        !.pc = "recommend",
                        !.request = Some(payload),
                        !.profile = IF ~given(payload.profile_id) THEN None
                                    ELSE get_user_profile(user_profiles,
                                                          Val(payload.profile_id))]]
    /\ UNCHANGED <<now, job_sources, job_postings, scan_history, attempts, ticked,
                   recommendation_runs, user_profiles,
                   auth_vars, emailer_vars>>

\* recommend, after its postings are settled: preferences and ranking
ranked_for(payload, postings, preferences, at) ==
    rank_postings(payload.resume_text, postings, preferences.preferred_keywords,
                  preferences.preferred_locations, preferences.preferred_companies,
                  preferences.remote_only, at)

after_postings(l, source, postings, at) ==
    [l EXCEPT !.pc = "record_run",
              !.source = source,
              !.postings = postings,
              !.ranked = ranked_for(Val(l.request), postings,
                                    resolve_recommendation_preferences(Val(l.request),
                                                                       l.profile),
                                    at)]

\* recommend with no postings in the request: list_postings
RecommendStored(t) ==
    /\ th[t].pc = "recommend"
    /\ Val(th[t].request).postings = <<>>
    /\ \E stored \in list_postings(job_postings, Val(th[t].request).max_postings) :
         th' = [th EXCEPT ![t] =
                  after_postings(th[t], "stored",
                                 [i \in DOMAIN stored |-> job_posting_of_stored(stored[i])],
                                 now)]
    /\ UNCHANGED <<now, job_sources, job_postings, scan_history, attempts, started, ticked,
                   recommendation_runs, user_profiles,
                   auth_vars, emailer_vars>>

\* recommend with postings in the request: upsert_postings
RecommendPayload(t) ==
    /\ th[t].pc = "recommend"
    /\ Val(th[t].request).postings # <<>>
    /\ job_postings' = upsert_postings(job_postings, Val(th[t].request).postings, now).rows
    /\ th' = [th EXCEPT ![t] =
                after_postings(th[t], "payload", Val(th[t].request).postings, now)]
    /\ UNCHANGED <<now, job_sources, scan_history, attempts, started, ticked,
                   recommendation_runs, user_profiles,
                   auth_vars, emailer_vars>>

\* record_recommendations and the RecommendResponse
recommend_response(l, run) ==
    [Idle("200", None) EXCEPT
        !.request = l.request,
        !.source = l.source,
        !.recommended =
            Some([run_id |-> run.run_id,
                  source |-> l.source,
                  applied_profile_id |->
                      IF l.profile = None THEN None ELSE Some(Val(l.profile).profile_id),
                  generated_at |-> run.generated_at,
                  recommendations |-> l.ranked])]

RecordRun(t) ==
    /\ th[t].pc = "record_run"
    /\ recommendation_runs' =
           Append(recommendation_runs,
                  recommendation_run(recommendation_runs, Val(th[t].request).resume_text,
                                     th[t].ranked, now))
    /\ th' = [th EXCEPT ![t] =
                recommend_response(th[t],
                    recommendation_run(recommendation_runs,
                                       Val(th[t].request).resume_text, th[t].ranked, now))]
    /\ UNCHANGED <<now, job_sources, job_postings, scan_history, attempts, started, ticked,
                   user_profiles,
                   auth_vars, emailer_vars>>

Next ==
    \/ Tick(MaxTicks)
    \/ \E t \in Threads, payload \in SourceRequests : UpsertJobSource(t, payload, MaxRequests)
    \/ \E t \in Threads, s \in SourceIds, rb \in BackoffQueries :
          StartScanOne(t, s, respect_backoff_of(rb), MaxRequests)
    \/ \E t \in Threads, eo \in BOOLEAN, rb \in BackoffQueries :
          StartScanAll(t, eo, respect_backoff_of(rb), MaxRequests)
    \/ \E t \in Threads, eo \in BOOLEAN : StartScanScheduled(t, eo, MaxRequests)
    \/ \E t \in Threads : ScanBegin(t)
    \/ \E t \in Threads, outcome \in NetworkOutcomes : Load(t, outcome)
    \/ \E t \in Threads : UpsertScanned(t)
    \/ \E t \in Threads : RecordSkipped(t)
    \/ \E t \in Threads : RecordOk(t)
    \/ \E t \in Threads : RecordError(t)

Spec == Init /\ [][Next]_vars

(***************************************************************************)
(* SpecBackoff: one json_url source scanned again and again by one thread, *)
(* without respect_backoff, long enough for the backoff to reach its cap.  *)
(* The clock advances before the source is configured.                     *)
(***************************************************************************)
UrlSource == CHOOSE payload \in SourceRequests : payload.source_type = "json_url"

NextBackoff ==
    \/ (job_sources = {} /\ Tick(MaxTicks))
    \/ (job_sources = {} /\ UpsertJobSource(1, UrlSource, MaxScans + 1))
    \/ (job_sources # {} /\ StartScanOne(1, UrlSource.source_id, FALSE, MaxScans + 1))
    \/ ScanBegin(1)
    \/ \E outcome \in NetworkOutcomes : Load(1, outcome)
    \/ UpsertScanned(1)
    \/ RecordOk(1)
    \/ RecordError(1)

SpecBackoff == Init /\ [][NextBackoff]_vars

(***************************************************************************)
(* SpecPostings: direct upserts of postings next to scans of the inline    *)
(* sources.                                                                *)
(***************************************************************************)
InlineSources == {payload \in SourceRequests : payload.source_type = "inline_json"}

NextPostings ==
    \/ Tick(MaxTicks)
    \/ \E t \in Threads, payload \in InlineSources : UpsertJobSource(t, payload, MaxRequests)
    \/ \E t \in Threads, batch \in PostingBatches : UpsertPostings(t, batch, MaxRequests)
    \/ \E t \in Threads, s \in SourceIds : StartScanOne(t, s, FALSE, MaxRequests)
    \/ \E t \in Threads : ScanBegin(t)
    \/ \E t \in Threads, outcome \in NetworkOutcomes : Load(t, outcome)
    \/ \E t \in Threads : UpsertScanned(t)
    \/ \E t \in Threads : RecordOk(t)

SpecPostings == Init /\ [][NextPostings]_vars

(***************************************************************************)
(* SpecRecommend: recommend requests and profile upserts and deletions     *)
(* next to direct upserts of postings and scans of the inline sources.     *)
(***************************************************************************)
NextRecommend ==
    \/ Tick(MaxTicks)
    \/ \E t \in Threads, payload \in InlineSources : UpsertJobSource(t, payload, MaxRequests)
    \/ \E t \in Threads, batch \in PostingBatches : UpsertPostings(t, batch, MaxRequests)
    \/ \E t \in Threads, s \in SourceIds : StartScanOne(t, s, FALSE, MaxRequests)
    \/ \E t \in Threads : ScanBegin(t)
    \/ \E t \in Threads, outcome \in NetworkOutcomes : Load(t, outcome)
    \/ \E t \in Threads : UpsertScanned(t)
    \/ \E t \in Threads : RecordOk(t)
    \/ \E t \in Threads, payload \in ProfileRequests :
          UpsertUserProfile(t, payload, MaxRequests)
    \/ \E t \in Threads, profile_id \in ProfileIds :
          DeleteUserProfile(t, profile_id, MaxRequests)
    \/ \E t \in Threads, payload \in RecommendRequests :
          StartRecommend(t, payload, MaxRequests)
    \/ \E t \in Threads : RecommendStored(t)
    \/ \E t \in Threads : RecommendPayload(t)
    \/ \E t \in Threads : RecordRun(t)

SpecRecommend == Init /\ [][NextRecommend]_vars

(***************************************************************************)
(* SpecRescan: source s1, whose items all carry an external_id or an id,   *)
(* scanned again and again while its URL answers with changing items.      *)
(***************************************************************************)
IdentifiedSources == {payload \in SourceRequests : payload.source_id = "s1"}

NextRescan ==
    \/ Tick(MaxTicks)
    \/ \E t \in Threads, payload \in IdentifiedSources :
          UpsertJobSource(t, payload, MaxRequests)
    \/ \E t \in Threads : StartScanOne(t, "s1", FALSE, MaxRequests)
    \/ \E t \in Threads : ScanBegin(t)
    \/ \E t \in Threads, outcome \in RescanOutcomes : Load(t, outcome)
    \/ \E t \in Threads : UpsertScanned(t)
    \/ \E t \in Threads : RecordOk(t)
    \/ \E t \in Threads : RecordError(t)

SpecRescan == Init /\ [][NextRescan]_vars

(***************************************************************************)
(* SpecSuccessive: the inline source s2, whose item carries no external    *)
(* identity, scanned by one request after the other; the clock may or may  *)
(* not have advanced between two readings of now_utc_iso.                  *)
(***************************************************************************)
NoIdentitySource == CHOOSE payload \in SourceRequests : payload.source_id = "s2"

NextSuccessive ==
    \/ Tick(MaxTicks)
    \/ (job_sources = {} /\ UpsertJobSource(1, NoIdentitySource, MaxScans + 1))
    \/ StartScanOne(1, NoIdentitySource.source_id, FALSE, MaxScans + 1)
    \/ ScanBegin(1)
    \/ \E outcome \in NetworkOutcomes : Load(1, outcome)
    \/ UpsertScanned(1)
    \/ RecordOk(1)

SpecSuccessive == Init /\ [][NextSuccessive]_vars

(***************************************************************************)
(* SpecBatch: manual and scheduled batch scans of the URL source s1 and    *)
(* the inline source s2, next to their configuration.                      *)
(***************************************************************************)
BatchSources == {UrlSource, NoIdentitySource}

NextBatch ==
    \/ Tick(MaxTicks)
    \/ \E t \in Threads, payload \in BatchSources : UpsertJobSource(t, payload, MaxRequests)
    \/ \E t \in Threads, eo \in BOOLEAN, rb \in BackoffQueries :
          StartScanAll(t, eo, respect_backoff_of(rb), MaxRequests)
    \/ \E t \in Threads, eo \in BOOLEAN : StartScanScheduled(t, eo, MaxRequests)
    \/ \E t \in Threads : ScanBegin(t)
    \/ \E t \in Threads, outcome \in NetworkOutcomes : Load(t, outcome)
    \/ \E t \in Threads : UpsertScanned(t)
    \/ \E t \in Threads : RecordSkipped(t)
    \/ \E t \in Threads : RecordOk(t)
    \/ \E t \in Threads : RecordError(t)

SpecBatch == Init /\ [][NextBatch]_vars

(***************************************************************************)
(* SpecSources: valid and invalid configurations of source s1, next to its *)
(* scans.                                                                  *)
(***************************************************************************)
NextSources ==
    \/ Tick(MaxTicks)
    \/ \E t \in Threads, payload \in IdentifiedSources \cup InvalidSourceRequests :
          UpsertJobSource(t, payload, MaxRequests)
    \/ \E t \in Threads : StartScanOne(t, "s1", FALSE, MaxRequests)
    \/ \E t \in Threads : ScanBegin(t)
    \/ \E t \in Threads, outcome \in NetworkOutcomes : Load(t, outcome)
    \/ \E t \in Threads : UpsertScanned(t)
    \/ \E t \in Threads : RecordOk(t)
    \/ \E t \in Threads : RecordError(t)

SpecSources == Init /\ [][NextSources]_vars

(***************************************************************************)
(* SpecFailures: the URL source s1 scanned alone and in batches while its  *)
(* URL answers well or with one of the failing answers.                    *)
(***************************************************************************)
NextFailures ==
    \/ Tick(MaxTicks)
    \/ \E t \in Threads : UpsertJobSource(t, UrlSource, MaxRequests)
    \/ \E t \in Threads, rb \in BackoffQueries :
          StartScanOne(t, UrlSource.source_id, respect_backoff_of(rb), MaxRequests)
    \/ \E t \in Threads : StartScanScheduled(t, TRUE, MaxRequests)
    \/ \E t \in Threads : ScanBegin(t)
    \/ \E t \in Threads, outcome \in NetworkOutcomes \cup FailingOutcomes : Load(t, outcome)
    \/ \E t \in Threads : UpsertScanned(t)
    \/ \E t \in Threads : RecordSkipped(t)
    \/ \E t \in Threads : RecordOk(t)
    \/ \E t \in Threads : RecordError(t)

SpecFailures == Init /\ [][NextFailures]_vars

(***************************************************************************)
(* SpecRanking: recommend requests over stored and supplied postings, with *)
(* and without a profile.                                                  *)
(***************************************************************************)
NextRanking ==
    \/ Tick(MaxTicks)
    \/ \E t \in Threads, batch \in PostingBatches : UpsertPostings(t, batch, MaxRequests)
    \/ \E t \in Threads, payload \in ProfileRequests :
          UpsertUserProfile(t, payload, MaxRequests)
    \/ \E t \in Threads, payload \in RankingRequests :
          StartRecommend(t, payload, MaxRequests)
    \/ \E t \in Threads : RecommendStored(t)
    \/ \E t \in Threads : RecommendPayload(t)
    \/ \E t \in Threads : RecordRun(t)

SpecRanking == Init /\ [][NextRanking]_vars

(***************************************************************************)
(* SpecRemote: recommend requests that supply postings with and without    *)
(* a remote location.                                                      *)
(***************************************************************************)
NextRemote ==
    \/ Tick(MaxTicks)
    \/ \E t \in Threads, payload \in ProfileRequests :
          UpsertUserProfile(t, payload, MaxRequests)
    \/ \E t \in Threads, payload \in RemoteRequests :
          StartRecommend(t, payload, MaxRequests)
    \/ \E t \in Threads : RecommendPayload(t)
    \/ \E t \in Threads : RecordRun(t)

SpecRemote == Init /\ [][NextRemote]_vars

(***************************************************************************)
(* SpecPreferences: recommend requests with and without preferences of     *)
(* their own, while the profile p1 is stored and deleted.                  *)
(***************************************************************************)
NextPreferences ==
    \/ Tick(MaxTicks)
    \/ \E t \in Threads, payload \in ProfileRequests :
          UpsertUserProfile(t, payload, MaxRequests)
    \/ \E t \in Threads : DeleteUserProfile(t, "p1", MaxRequests)
    \/ \E t \in Threads, payload \in PreferenceRequests :
          StartRecommend(t, payload, MaxRequests)
    \/ \E t \in Threads : RecommendPayload(t)
    \/ \E t \in Threads : RecordRun(t)

SpecPreferences == Init /\ [][NextPreferences]_vars

(***************************************************************************)
(* API tokens and require_scope.  A scope and a token are strings; the     *)
(* token a create_api_token call draws (obs_ + 32 random bytes) and its    *)
(* uuid4 token_id are the next unused of RawTokens and TokenIdOrder.       *)
(***************************************************************************)
TokenIdOrder == <<"k1", "k2", "k3", "k4">>
RawTokens == <<"t1", "t2", "t3", "t4">>

hash_token(token) == <<"#sha256", token>>

\* sorted({scope.strip() for scope in scopes if scope.strip()}), as a set
normalize_scopes(scopes) == {scopes[i] : i \in DOMAIN scopes} \ {"", " "}

active(row, at) ==
    row.revoked_at = None /\ (row.expires_at = None \/ Val(row.expires_at) > at)

has_active_api_tokens(rows, at) == \E row \in rows : active(row, at)

create_api_token(rows, payload, at) ==
    [token_id |-> TokenIdOrder[Cardinality(rows) + 1],
     token_hash |-> hash_token(RawTokens[Cardinality(rows) + 1]),
     name |-> payload.name,
     scopes |-> normalize_scopes(payload.scopes),
     created_at |-> at, updated_at |-> at,
     expires_at |-> payload.expires_at,
     revoked_at |-> None, last_used_at |-> None]

\* UPDATE api_tokens SET revoked_at = ?, updated_at = ? WHERE token_id = ?
\* AND revoked_at IS NULL
revoke_api_token(rows, token_id, at) ==
    {IF row.token_id = token_id /\ row.revoked_at = None
     THEN [row EXCEPT !.revoked_at = Some(at), !.updated_at = at]
     ELSE row : row \in rows}

revocable(rows, token_id) ==
    \E row \in rows : row.token_id = token_id /\ row.revoked_at = None

resolve_db_token(rows, token_value, at) ==
    IF \E row \in rows : row.token_hash = hash_token(token_value) /\ active(row, at)
    THEN LET row == CHOOSE row \in rows :
                       row.token_hash = hash_token(token_value) /\ active(row, at)
         IN  Some([scopes |-> row.scopes,
                   auth_subject |-> <<"db-token:", row.token_id>>,
                   token_id |-> Some(row.token_id)])
    ELSE None

touch_api_token_usage(rows, token_id, at) ==
    {IF row.token_id = token_id
     THEN [row EXCEPT !.last_used_at = Some(at), !.updated_at = at]
     ELSE row : row \in rows}

\* TokenAuthContext of a token of app.state.auth_token_scopes
env_token_context(token_map, provided) ==
    [scopes |-> token_map[provided],
     auth_subject |-> <<"token:", provided>>,
     token_id |-> None]

\* A check that every token passes.
lacks_scope_never(scopes, scope) == FALSE

\* "*" not in scopes and scope not in scopes
lacks_scope(scopes, scope) == "*" \notin scopes /\ scope \notin scopes

\* require_scope from the scope check on: 403 or the handler's operation
scope_checked(l, token_context) ==
    IF lacks_scope(token_context.scopes, Val(l.operation).scope)
    THEN [Idle("403", None) EXCEPT !.api_key = l.api_key, !.operation = l.operation]
    ELSE [l EXCEPT !.pc = "operate", !.token_context = Some(token_context)]

\* require_scope up to its first look at the token
scope_required(l, token_map, has_db_tokens) ==
    IF token_map = NoEnvTokens /\ ~has_db_tokens
    THEN [l EXCEPT !.pc = "operate"]
    ELSE IF l.api_key = ""
    THEN [Idle("401", None) EXCEPT !.api_key = l.api_key, !.operation = l.operation]
    ELSE IF l.api_key \in DOMAIN token_map
    THEN scope_checked(l, env_token_context(token_map, l.api_key))
    ELSE [l EXCEPT !.pc = "resolve_db_token"]

\* A request to POST /postings, POST /auth/tokens or
\* POST /auth/tokens/{token_id}/revoke with the header x-api-key
StartProtected(t, operation, provided, limit) ==
    /\ CanStart(t, limit)
    /\ started' = started + 1
    /\ th' = [th EXCEPT ![t] =
                scope_required([Idle("none", None) EXCEPT
                                   !.pc = "require_scope",
                                   !.api_key = provided,
                                   !.operation = Some(operation)],
                               auth_token_scopes,
                               has_active_api_tokens(api_tokens, now))]
    /\ UNCHANGED <<now, job_sources, job_postings, scan_history, attempts, ticked,
                   recommendation_runs, user_profiles, auth_vars, emailer_vars>>

ResolveDbToken(t) ==
    /\ th[t].pc = "resolve_db_token"
    /\ th' = [th EXCEPT ![t] =
                IF resolve_db_token(api_tokens, th[t].api_key, now) = None
                THEN [Idle("401", None) EXCEPT !.api_key = th[t].api_key,
                                               !.operation = th[t].operation]
                ELSE [th[t] EXCEPT
                        !.pc = "touch_api_token_usage",
                        !.token_context =
                            resolve_db_token(api_tokens, th[t].api_key, now)]]
    /\ UNCHANGED <<now, job_sources, job_postings, scan_history, attempts, started, ticked,
                   recommendation_runs, user_profiles, auth_vars, emailer_vars>>

TouchUsage(t) ==
    /\ th[t].pc = "touch_api_token_usage"
    /\ api_tokens' = touch_api_token_usage(api_tokens,
                                           Val(Val(th[t].token_context).token_id), now)
    /\ th' = [th EXCEPT ![t] = scope_checked(th[t], Val(th[t].token_context))]
    /\ UNCHANGED <<now, job_sources, job_postings, scan_history, attempts, started, ticked,
                   recommendation_runs, user_profiles, auth_token_scopes, emailer_vars>>

\* The handler after require_scope has returned
Answered(l, response, result) ==
    [Idle(response, result) EXCEPT !.api_key = l.api_key, !.operation = l.operation,
                                   !.token_context = l.token_context]

OperatePostings(t) ==
    /\ th[t].pc = "operate"
    /\ Val(th[t].operation).action = "postings_upsert"
    /\ job_postings' = upsert_postings(job_postings, Val(th[t].operation).postings, now).rows
    /\ th' = [th EXCEPT ![t] = Answered(th[t], "200", None)]
    /\ UNCHANGED <<now, job_sources, scan_history, attempts, started, ticked,
                   recommendation_runs, user_profiles, auth_vars, emailer_vars>>

OperateTokenCreate(t) ==
    /\ th[t].pc = "operate"
    /\ Val(th[t].operation).action = "token_create"
    /\ Cardinality(api_tokens) < Len(TokenIdOrder)
    /\ api_tokens' = api_tokens \cup
                        {create_api_token(api_tokens, Val(th[t].operation).payload, now)}
    /\ th' = [th EXCEPT ![t] =
                Answered(th[t], "200", Some(RawTokens[Cardinality(api_tokens) + 1]))]
    /\ UNCHANGED <<now, job_sources, job_postings, scan_history, attempts, started, ticked,
                   recommendation_runs, user_profiles, auth_token_scopes, emailer_vars>>

OperateTokenRevoke(t) ==
    /\ th[t].pc = "operate"
    /\ Val(th[t].operation).action = "token_revoke"
    /\ api_tokens' = revoke_api_token(api_tokens, Val(th[t].operation).token_id, now)
    /\ th' = [th EXCEPT ![t] =
                Answered(th[t],
                         IF revocable(api_tokens, Val(th[t].operation).token_id)
                         THEN "200" ELSE "404", None)]
    /\ UNCHANGED <<now, job_sources, job_postings, scan_history, attempts, started, ticked,
                   recommendation_runs, user_profiles, auth_token_scopes, emailer_vars>>

(***************************************************************************)
(* SpecAuth: requests to three scope-protected endpoints, with and         *)
(* without a bootstrap api_key in the configuration, presenting no key,    *)
(* the bootstrap key, issued tokens or an unknown key.                     *)
(***************************************************************************)
NoOperation ==
    [action |-> "", scope |-> "", postings |-> <<>>, token_id |-> "",
     payload |-> [name |-> "", scopes |-> <<>>, expires_at |-> None]]

ProtectedOperations ==
    {[NoOperation EXCEPT !.action = "postings_upsert", !.scope = "postings:write",
                         !.postings = <<JobPostingA>>],
     [NoOperation EXCEPT !.action = "token_create", !.scope = "tokens:write",
                         !.payload = [name |-> "a", scopes |-> <<"*">>,
                                      expires_at |-> None]],
     [NoOperation EXCEPT !.action = "token_create", !.scope = "tokens:write",
                         !.payload = [name |-> "w", scopes |-> <<"postings:write", " ">>,
                                      expires_at |-> Some(1)]],
     [NoOperation EXCEPT !.action = "token_revoke", !.scope = "tokens:write",
                         !.token_id = "k1"]}

ApiKeys == {"", "boot", "t1", "t2", "zz"}

\* create_app(api_key="boot"): the key holds the scope "*"
BootstrapTokens == [token \in {"boot"} |-> {"*"}]

InitAuth ==
    /\ now = 0
    /\ job_sources = {}
    /\ job_postings = {}
    /\ scan_history = <<>>
    /\ th = [t \in Threads |-> Idle("none", None)]
    /\ attempts = [s \in SourceIds |-> 0]
    /\ started = 0
    /\ ticked = 0
    /\ recommendation_runs = <<>>
    /\ user_profiles = {}
    /\ api_tokens = {}
    /\ auth_token_scopes \in {NoEnvTokens, BootstrapTokens}
    /\ digest_queue = <<>>
    /\ digest_worker = WorkerWaiting

NextAuth ==
    \/ Tick(MaxTicks)
    \/ \E t \in Threads, operation \in ProtectedOperations, provided \in ApiKeys :
          StartProtected(t, operation, provided, MaxRequests)
    \/ \E t \in Threads : ResolveDbToken(t)
    \/ \E t \in Threads : TouchUsage(t)
    \/ \E t \in Threads : OperatePostings(t)
    \/ \E t \in Threads : OperateTokenCreate(t)
    \/ \E t \in Threads : OperateTokenRevoke(t)

SpecAuth == InitAuth /\ [][NextAuth]_vars

(***************************************************************************)
(* Emailer: the digest queue.  The queue is unbounded, so queue.put never  *)
(* suspends and trigger_digest runs from its first line to its return      *)
(* without another task of the event loop running in between; the worker   *)
(* suspends in queue.get() and in its sleep.                               *)
(***************************************************************************)
DigestJob(recipient, jobs) == [recipient |-> recipient, jobs |-> jobs]

\* DigestWorker.enqueue for each recipient in turn: the queue afterwards and
\* the qsize returned by the last call, 0 when there was none
RECURSIVE enqueue_each(_, _, _, _)
enqueue_each(queue, recipients, jobs, queued) ==
    IF recipients = <<>>
    THEN [queue |-> queue, queued |-> queued]
    ELSE enqueue_each(Append(queue, DigestJob(Head(recipients), jobs)),
                      Tail(recipients), jobs, Len(queue) + 1)

\* POST /cron/digest
TriggerDigest(t, payload, limit) ==
    /\ CanStart(t, limit)
    /\ started' = started + 1
    /\ digest_queue' = enqueue_each(digest_queue, payload.recipients, payload.jobs, 0).queue
    /\ digest_worker' =
          [digest_worker EXCEPT !.unfinished_tasks = @ + Len(payload.recipients)]
    /\ th' = [th EXCEPT ![t] =
                [Idle("200",
                      Some([status |-> "queued",
                            queued_jobs |-> enqueue_each(digest_queue, payload.recipients,
                                                         payload.jobs, 0).queued,
                            scheduled_at |-> now]))
                    EXCEPT !.request = Some(payload)]]
    /\ UNCHANGED <<now, job_sources, job_postings, scan_history, attempts, ticked,
                   recommendation_runs, user_profiles, auth_vars>>

\* DigestWorker.run: job = await self.queue.get(), and the line printed for
\* it before the task suspends in its sleep; sent holds the jobs printed
sending(worker, job) ==
    [worker EXCEPT !.pc = "send", !.job = Some(job), !.sent = Append(@, job)]

WorkerGet ==
    /\ digest_worker.pc = "get"
    /\ digest_queue # <<>>
    /\ digest_worker' = sending(digest_worker, Head(digest_queue))
    /\ digest_queue' = Tail(digest_queue)
    /\ UNCHANGED <<now, job_sources, job_postings, scan_history, th, attempts, started, ticked,
                   recommendation_runs, user_profiles, auth_vars>>

\* DigestWorker.run: the sleep ends, queue.task_done() is called in the
\* finally clause and the loop goes back to queue.get()
task_done_left_out(worker) == worker

task_done(worker) == [worker EXCEPT !.unfinished_tasks = @ - 1]

WorkerDone ==
    /\ digest_worker.pc = "send"
    /\ digest_worker' = task_done([digest_worker EXCEPT !.pc = "get", !.job = None])
    /\ UNCHANGED <<now, job_sources, job_postings, scan_history, th, attempts, started, ticked,
                   recommendation_runs, user_profiles, auth_vars, digest_queue>>

(***************************************************************************)
(* SpecDigest: digest triggers for no, one and two recipients while the    *)
(* worker takes jobs from the queue.                                       *)
(***************************************************************************)
DigestRequests ==
    {[recipients |-> <<>>, jobs |-> <<"J">>],
     [recipients |-> <<"a@x.io">>, jobs |-> <<"J">>],
     [recipients |-> <<"b@x.io", "a@x.io">>, jobs |-> <<"J", "K">>]}

NextDigest ==
    \/ Tick(MaxTicks)
    \/ \E t \in Threads, payload \in DigestRequests : TriggerDigest(t, payload, MaxRequests)
    \/ WorkerGet
    \/ WorkerDone

SpecDigest == Init /\ [][NextDigest]_vars

\* The worker task is created at startup and runs on the event loop of the
\* handlers: the loop resumes it once queue.get() has a job to return and
\* once its sleep of 0.05 s is over.
SpecDigestFair ==
    Init /\ [][NextDigest]_vars /\ WF_vars(WorkerGet) /\ WF_vars(WorkerDone)

(***************************************************************************)
(* SpecKeys: direct upserts of postings that name the source s1, with and  *)
(* without a dedup_key of their own, next to scans of the inline sources.  *)
(***************************************************************************)
PostingOfSource ==
    [JobPostingA EXCEPT !.id = <<"s1", ":", ":", "x", "1">>,
                        !.source_id = Some(<<"s1">>),
                        !.external_id = Some(<<"x", "1">>)]
PostingOwnKey == [PostingOfSource EXCEPT !.dedup_key = Some(<<"k">>)]
KeyBatches == {<<JobPostingA>>, <<PostingOfSource>>, <<PostingOwnKey>>}

NextKeys ==
    \/ Tick(MaxTicks)
    \/ \E t \in Threads, payload \in InlineSources : UpsertJobSource(t, payload, MaxRequests)
    \/ \E t \in Threads, batch \in KeyBatches : UpsertPostings(t, batch, MaxRequests)
    \/ \E t \in Threads, s \in SourceIds : StartScanOne(t, s, FALSE, MaxRequests)
    \/ \E t \in Threads : ScanBegin(t)
    \/ \E t \in Threads, outcome \in NetworkOutcomes : Load(t, outcome)
    \/ \E t \in Threads : UpsertScanned(t)
    \/ \E t \in Threads : RecordOk(t)

SpecKeys == Init /\ [][NextKeys]_vars

(***************************************************************************)
(* SpecDedup: build_dedup_key applied to two tuples of title, company,     *)
(* location and apply_url that are alike but for letter case,              *)
(* punctuation, whitespace and the tail of the URL.                        *)
(***************************************************************************)
TextsUpTo(alphabet, n) == UNION {[1..k -> alphabet] : k \in 1..n}

DedupTitles == TextsUpTo({"B", "b", "-", " "}, MaxTitleLen)
DedupCompanies == {None, Some(<<"C", "o">>), Some(<<"c", ".", "o">>)}
DedupLocations == {Some(<<"x">>)}
DedupUrls ==
    {None,
     Some(<<"x", ":", "/", "/", "A", "/", "b">>),
     Some(<<"x", ":", "/", "/", "a", "/", "B", "/">>),
     Some(<<"x", ":", "/", "/", "a", "/", "b", "/", "?", "e", "#", "m">>)}

IsPunctuation(c) == c \in {"-", ".", "!"}

\* A text without its punctuation and in lower case
RECURSIVE Plain(_)
Plain(text) ==
    IF text = <<>> THEN <<>>
    ELSE (IF IsPunctuation(Head(text)) THEN <<>> ELSE <<LowerChar(Head(text))>>)
         \o Plain(Tail(text))

\* A URL without its query, fragment and trailing slashes
UrlStem(url) == rstrip_slash(before_any(url, {"?", "#"}))

AlikeText(a, b) == Plain(a) = Plain(b)

\* The letters and digits of a text, in lower case
RECURSIVE Letters(_)
Letters(text) ==
    IF text = <<>> THEN <<>>
    ELSE (IF IsSpace(Head(text)) THEN <<>> ELSE <<Head(text)>>) \o Letters(Tail(text))

SameLetters(a, b) ==
    (a = None) = (b = None) /\ Letters(Plain(OrEmpty(a))) = Letters(Plain(OrEmpty(b)))
AlikeOptional(a, b) == (a = None) = (b = None) /\ AlikeText(OrEmpty(a), OrEmpty(b))
AlikeUrl(a, b) ==
    (a = None) = (b = None) /\ lower(UrlStem(OrEmpty(a))) = lower(UrlStem(OrEmpty(b)))

DedupTuple(title, company, location, apply_url) ==
    [title |-> title, company |-> company, location |-> location, apply_url |-> apply_url]

InitDedup ==
    /\ now = 0
    /\ job_sources = {}
    /\ job_postings = {}
    /\ scan_history = <<>>
    /\ attempts = [s \in SourceIds |-> 0]
    /\ started = 0
    /\ ticked = 0
    /\ recommendation_runs = <<>>
    /\ user_profiles = {}
    /\ api_tokens = {}
    /\ auth_token_scopes = NoEnvTokens
    /\ digest_queue = <<>>
    /\ digest_worker = WorkerWaiting
    /\ \E title \in DedupTitles, company \in DedupCompanies, location \in DedupLocations, apply_url \in DedupUrls :
       \E title2 \in {x \in DedupTitles : SameLetters(Some(title), Some(x))}, company2 \in {x \in DedupCompanies : SameLetters(company, x)}, apply_url2 \in {x \in DedupUrls : AlikeUrl(apply_url, x)} :
          th = [t \in Threads |->
                  IF t = 1
                  THEN [Idle("none", None) EXCEPT
                          !.pc = "build_dedup_key",
                          !.request = Some(<<DedupTuple(title, company, location, apply_url),
                                             DedupTuple(title2, company2, location, apply_url2)>>)]
                  ELSE Idle("none", None)]

dedup_key_of(tuple) ==
    build_dedup_key(tuple.title, tuple.company, tuple.location, tuple.apply_url)

BuildDedupKey(t) ==
    /\ th[t].pc = "build_dedup_key"
    /\ th' = [th EXCEPT ![t] =
                [Idle("200", Some(<<dedup_key_of(Val(th[t].request)[1]),
                                    dedup_key_of(Val(th[t].request)[2])>>))
                    EXCEPT !.request = th[t].request]]
    /\ UNCHANGED <<now, job_sources, job_postings, scan_history, attempts, started, ticked,
                   recommendation_runs, user_profiles,
                   auth_vars, emailer_vars>>

NextDedup == \E t \in Threads : BuildDedupKey(t)

SpecDedup == InitDedup /\ [][NextDedup]_vars

(***************************************************************************)
(* Properties.                                                             *)
(***************************************************************************)
\* A step that appends a scan-history row, and the row it appends.
Appended == Len(scan_history') = Len(scan_history) + 1
NewRow == scan_history'[Len(scan_history')]
Recorded(sid, status) ==
    Appended /\ NewRow.source_id = sid /\ NewRow.status = status

HistoryKept == SubSeq(scan_history', 1, Len(scan_history)) = scan_history

RowsOf(history, sid) == {i \in DOMAIN history : history[i].source_id = sid}
PrevRow(sid) ==
    scan_history[CHOOSE i \in RowsOf(scan_history, sid) :
                    \A j \in RowsOf(scan_history, sid) : j <= i]
InFlight(threads, sid) ==
    {t \in Threads : /\ threads[t].pc \in {"record_skipped", "load", "upsert",
                                           "record_ok", "record_error"}
                     /\ Head(threads[t].queue).source_id = sid}

ScanState(r) ==
    <<r.last_scan_at, r.last_success_at, r.last_status, r.last_error,
      r.consecutive_failures, r.next_eligible_scan_at>>

\* C1: an attempt that ends in error raises consecutive_failures by exactly
\* one and records backoff_seconds = min(60 * 2^(n-1), 3600) for the new
\* count n, never more than 3600, and next_eligible_scan_at = scan time +
\* backoff_seconds, on the row and in the history.
C1_ErrorBackoff ==
    [][\A sid \in SourceIds :
         Recorded(sid, "error") =>
           LET prior == SourceRow(job_sources, sid)
               after == SourceRow(job_sources', sid)
               n == after.consecutive_failures
               expected == IF 60 * 2^(n - 1) < 3600 THEN 60 * 2^(n - 1) ELSE 3600
           IN  /\ n = prior.consecutive_failures + 1
               /\ NewRow.attempt_number = n
               /\ NewRow.backoff_seconds = expected
               /\ NewRow.backoff_seconds <= 3600
               /\ (n = 1 => NewRow.backoff_seconds = 60)
               /\ (n = 2 => NewRow.backoff_seconds = 120)
               /\ (n = 3 => NewRow.backoff_seconds = 240)
               /\ after.next_eligible_scan_at =
                      Some(NewRow.scanned_at + expected * TicksPerSecond)
               /\ NewRow.next_eligible_scan_at = after.next_eligible_scan_at]_vars

C1_CapReached ==
    \E i \in DOMAIN scan_history :
        /\ scan_history[i].status = "error"
        /\ scan_history[i].attempt_number > 7
        /\ scan_history[i].backoff_seconds = 3600
        /\ scan_history[i].scanned_at > 0

\* C2: an attempt that ends ok leaves the source with consecutive_failures
\* = 0, no last_error, no next_eligible_scan_at and last_success_at = the
\* scan time, whatever the failure count before, and is recorded with
\* attempt_number = 1 and backoff_seconds = 0.
C2_OkResets ==
    [][\A sid \in SourceIds :
         Recorded(sid, "ok") =>
           LET after == SourceRow(job_sources', sid)
           IN  /\ after.consecutive_failures = 0
               /\ after.last_error = None
               /\ after.next_eligible_scan_at = None
               /\ after.last_success_at = Some(NewRow.scanned_at)
               /\ after.last_scan_at = Some(NewRow.scanned_at)
               /\ NewRow.attempt_number = 1
               /\ NewRow.backoff_seconds = 0
               /\ NewRow.next_eligible_scan_at = None]_vars

C2_OkAfterFailures ==
    \E i \in DOMAIN scan_history :
        /\ i > 1
        /\ scan_history[i].status = "ok"
        /\ scan_history[i - 1].status = "error"
        /\ scan_history[i - 1].attempt_number >= 3
        /\ SourceRow(job_sources, scan_history[i].source_id).last_scan_at =
               Some(scan_history[i].scanned_at)
        /\ SourceRow(job_sources, scan_history[i].source_id).consecutive_failures = 0

\* C3: a scan with respect_backoff of a source that is backing off, begun
\* strictly before its next_eligible_scan_at, is skipped, and the skip is
\* recorded with backoff_seconds > 0 and leaves consecutive_failures as it
\* was.
C3_SkipInsideWindow ==
    [][\A t \in Threads :
         /\ (/\ ScanBegin(t)
             /\ th[t].respect_backoff
             /\ Source(t) = SourceRow(job_sources, Source(t).source_id)
             /\ Source(t).consecutive_failures > 0
             /\ IsSet(Source(t).next_eligible_scan_at)
             /\ now < Val(Source(t).next_eligible_scan_at))
            => th'[t].pc = "record_skipped"
         /\ (/\ RecordSkipped(t)
             /\ SourceRow(job_sources, Source(t).source_id).consecutive_failures > 0
             /\ IsSet(SourceRow(job_sources, Source(t).source_id).next_eligible_scan_at)
             /\ th[t].scanned_at <
                    Val(SourceRow(job_sources, Source(t).source_id).next_eligible_scan_at))
            => /\ NewRow.status = "skipped"
               /\ NewRow.backoff_seconds > 0
               /\ SourceRow(job_sources', Source(t).source_id).consecutive_failures =
                      SourceRow(job_sources, Source(t).source_id).consecutive_failures]_vars

\* C4 as amended: a skipped attempt performs no fetch and changes nothing of
\* the source but last_scan_at, last_status and updated_at:
\* consecutive_failures, next_eligible_scan_at, last_error and
\* last_success_at keep their values, the other sources and the stored
\* postings are unchanged, and one history row is appended.
C4_SkipFrame ==
    [][\A t \in Threads :
         RecordSkipped(t) =>
           LET prior == SourceRow(job_sources, Source(t).source_id)
           IN  /\ ~th[t].fetched
               /\ job_sources' = (job_sources \ {prior}) \cup
                      {[prior EXCEPT !.last_scan_at = Some(th[t].scanned_at),
                                     !.last_status = Some("skipped"),
                                     !.updated_at = now]}
               /\ job_postings' = job_postings
               /\ Appended
               /\ HistoryKept
               /\ NewRow.source_id = prior.source_id
               /\ NewRow.status = "skipped"
               /\ NewRow.fetched = 0
               /\ NewRow.ingested = 0]_vars

C4_SkipRecorded ==
    \E r \in job_sources :
        /\ r.last_status = Some("skipped")
        /\ r.consecutive_failures > 0
        /\ IsSet(r.last_error)
        /\ IsSet(r.next_eligible_scan_at)
        /\ r.last_scan_at = Some(r.updated_at)
        /\ r.updated_at > 0

\* C4 as stated: a skipped attempt changes nothing of the source but
\* last_scan_at and last_status.
C4_SkipChangesTwoFields ==
    [][\A t \in Threads :
         RecordSkipped(t) =>
           LET prior == SourceRow(job_sources, Source(t).source_id)
           IN  /\ ~th[t].fetched
               /\ job_sources' = (job_sources \ {prior}) \cup
                      {[prior EXCEPT !.last_scan_at = Some(th[t].scanned_at),
                                     !.last_status = Some("skipped")]}
               /\ job_postings' = job_postings
               /\ Appended
               /\ HistoryKept]_vars

\* C5 as amended: the attempt_number recorded for a skipped scan is the
\* source's consecutive_failures + 1, one more than the attempt_number of
\* the failed attempt that opened the backoff window when that attempt is
\* the source's preceding one, and the same as a preceding skip's.
C5_SkipAttemptNumber ==
    [][\A t \in Threads :
         RecordSkipped(t) =>
           LET sid == Source(t).source_id
           IN  /\ NewRow.attempt_number =
                      SourceRow(job_sources, sid).consecutive_failures + 1
               /\ RowsOf(scan_history, sid) # {}
               /\ (PrevRow(sid).status = "error" =>
                      NewRow.attempt_number = PrevRow(sid).attempt_number + 1)
               /\ (PrevRow(sid).status = "skipped" =>
                      NewRow.attempt_number = PrevRow(sid).attempt_number)]_vars

C5_SkipAfterError ==
    \E i \in DOMAIN scan_history :
        /\ i > 1
        /\ scan_history[i].status = "skipped"
        /\ scan_history[i].attempt_number = 2
        /\ scan_history[i - 1].status = "error"
        /\ scan_history[i - 1].attempt_number = 1
        /\ scan_history[i - 1].source_id = scan_history[i].source_id

\* C5 as stated: the attempt_number recorded for a skipped scan equals the
\* attempt_number recorded for the source's immediately preceding attempt.
C5_SkipCarriesAttemptNumber ==
    [][\A t \in Threads :
         RecordSkipped(t) =>
           /\ RowsOf(scan_history, Source(t).source_id) # {}
           /\ NewRow.attempt_number =
                  PrevRow(Source(t).source_id).attempt_number]_vars

\* C6: every attempt appends exactly one history row, whose status,
\* trigger, counts, attempt number, backoff seconds and next-eligible time
\* equal the result returned; rows already written are never modified or
\* removed; the rows of a source are as many as the attempts made on it
\* (those still running not counted).
C6_HistoryAppendOnly ==
    [][/\ (scan_history' = scan_history \/ (Appended /\ HistoryKept))
       /\ \A t \in Threads :
            (RecordSkipped(t) \/ RecordOk(t) \/ RecordError(t)) =>
              LET result == Val(th'[t].result)
              IN  /\ Appended
                  /\ th'[t].results = Append(th[t].results, result)
                  /\ NewRow.source_id = Source(t).source_id
                  /\ NewRow.source_id = result.source_id
                  /\ NewRow.scanned_at = result.scanned_at
                  /\ NewRow.status = result.status
                  /\ NewRow.trigger = result.trigger
                  /\ NewRow.fetched = result.fetched
                  /\ NewRow.ingested = result.ingested
                  /\ NewRow.possible_duplicates = result.possible_duplicates
                  /\ NewRow.attempt_number = result.attempt_number
                  /\ NewRow.backoff_seconds = result.backoff_seconds
                  /\ NewRow.next_eligible_scan_at = result.next_eligible_scan_at
       /\ \A sid \in SourceIds :
            Cardinality(RowsOf(scan_history', sid)) +
                Cardinality(InFlight(th', sid)) = attempts'[sid]]_vars

C6_AllOutcomesRecorded ==
    /\ \E i \in DOMAIN scan_history : scan_history[i].status = "ok"
    /\ \E i \in DOMAIN scan_history : scan_history[i].status = "error"
    /\ \A t \in Threads : th[t].pc = "idle"
    /\ \A sid \in SourceIds :
         Cardinality(RowsOf(scan_history, sid)) = attempts[sid]

\* C7: in every reachable state every source has next_eligible_scan_at set
\* exactly when its consecutive_failures is above 0.
C7_WindowIffFailing ==
    \A r \in job_sources :
        IsSet(r.next_eligible_scan_at) <=> r.consecutive_failures > 0

C7_IdleAndBackingOff ==
    /\ \E r \in job_sources :
         r.consecutive_failures > 0 /\ IsSet(r.next_eligible_scan_at)
    /\ \E r \in job_sources :
         /\ r.consecutive_failures = 0
         /\ r.next_eligible_scan_at = None
         /\ r.last_status = Some("ok")

\* C8: consecutive_failures of a source goes down only to 0 and only by an
\* attempt that ends ok; an error attempt raises it by exactly one; a
\* skipped attempt, a source upsert and every other step leave it as it was.
C8_FailuresMonotone ==
    [][\A sid \in SourceIds :
         HasSource(job_sources, sid) =>
           LET prior == SourceRow(job_sources, sid).consecutive_failures
               after == SourceRow(job_sources', sid).consecutive_failures
           IN  /\ HasSource(job_sources', sid)
               /\ (Recorded(sid, "error") => after = prior + 1)
               /\ (Recorded(sid, "skipped") => after = prior)
               /\ (Recorded(sid, "ok") => after = 0)
               /\ (~(Appended /\ NewRow.source_id = sid) => after = prior)
               /\ (after < prior => Recorded(sid, "ok") /\ after = 0)]_vars

C8_ResetAfterFailure ==
    \E r \in job_sources :
        /\ r.consecutive_failures = 0
        /\ r.last_status = Some("ok")
        /\ \E i \in RowsOf(scan_history, r.source_id) :
             scan_history[i].status = "error"

\* C9: upserting a source leaves exactly one row for its source_id, with the
\* name, kind, config and enabled flag of the request; for a source_id
\* already stored last_scan_at, last_success_at, last_status, last_error,
\* consecutive_failures and next_eligible_scan_at stay as they were;
\* upserting the same request again changes nothing; and those six fields
\* change only in a step that records a scan attempt of the source.
C9_UpsertSourceFrame ==
    [][/\ \A t \in Threads, payload \in SourceRequests :
            UpsertJobSource(t, payload, MaxRequests) =>
              LET after == SourceRow(job_sources', payload.source_id)
              IN  /\ Cardinality({r \in job_sources' :
                                     r.source_id = payload.source_id}) = 1
                  /\ after.name = payload.name
                  /\ after.source_type = payload.source_type
                  /\ after.enabled = payload.enabled
                  /\ (payload.source_type = "json_url" =>
                        /\ after.config.url = payload.url
                        /\ after.config.postings = None)
                  /\ (payload.source_type = "inline_json" =>
                        /\ after.config.url = None
                        /\ Len(Val(after.config.postings)) = Len(payload.postings)
                        /\ \A i \in DOMAIN payload.postings :
                              Val(after.config.postings)[i].title =
                                  Str(payload.postings[i].title))
                  /\ (HasSource(job_sources, payload.source_id) =>
                        /\ ScanState(after) =
                               ScanState(SourceRow(job_sources, payload.source_id))
                        /\ after.created_at =
                               SourceRow(job_sources, payload.source_id).created_at
                        /\ Cardinality(job_sources') = Cardinality(job_sources))
                  /\ \A r \in job_sources :
                        r.source_id # payload.source_id => r \in job_sources'
                  /\ upsert_job_source(job_sources', payload, now) = job_sources'
                  /\ scan_history' = scan_history
       /\ \A sid \in SourceIds :
            (/\ HasSource(job_sources, sid)
             /\ ScanState(SourceRow(job_sources', sid)) #
                    ScanState(SourceRow(job_sources, sid)))
            => (Appended /\ NewRow.source_id = sid)]_vars

C9_ReconfiguredWhileFailing ==
    \E r \in job_sources :
        /\ r.source_type = "inline_json"
        /\ r.last_status = Some("error")
        /\ r.last_error = Some("upstream unavailable")
        /\ r.consecutive_failures = 1
        /\ IsSet(r.next_eligible_scan_at)
        /\ r.created_at < r.updated_at

\* C10: no two stored postings share an id; upserting postings leaves, for
\* every id given, one row holding the fields of the last posting given
\* with that id (whitespace-normalised, created_at kept when the id was
\* stored before), adds one row for each id not stored before and none for
\* an id already stored, and leaves the other rows alone.
PostingIds(rows) == {r.id : r \in rows}
BatchIds(batch) == {batch[i].id : i \in DOMAIN batch}
LastWithId(batch, id) ==
    batch[CHOOSE i \in DOMAIN batch :
             batch[i].id = id /\ \A j \in DOMAIN batch : j > i => batch[j].id # id]
PostingRow(rows, id) == CHOOSE r \in rows : r.id = id

UpsertedAs(batch) ==
    /\ PostingIds(job_postings') = PostingIds(job_postings) \cup BatchIds(batch)
    /\ Cardinality(job_postings') =
           Cardinality(job_postings) +
               Cardinality(BatchIds(batch) \ PostingIds(job_postings))
    /\ \A r \in job_postings : r.id \notin BatchIds(batch) => r \in job_postings'
    /\ \A id \in BatchIds(batch) :
         LET posting == LastWithId(batch, id)
             after == PostingRow(job_postings', id)
         IN  /\ after.title = normalize_whitespace(posting.title)
             /\ after.description =
                    (IF normalize_whitespace(posting.description) = <<>>
                     THEN after.title
                     ELSE normalize_whitespace(posting.description))
             /\ after.company = OrNone(normalize_whitespace(OrEmpty(posting.company)))
             /\ after.location = OrNone(normalize_whitespace(OrEmpty(posting.location)))
             /\ after.apply_url = OrNone(strip(OrEmpty(posting.apply_url)))
             /\ after.updated_at = now
             /\ after.created_at =
                    (IF id \in PostingIds(job_postings)
                     THEN PostingRow(job_postings, id).created_at ELSE now)

C10_PostingIdentityUnique ==
    [][/\ \A r1, r2 \in job_postings' : r1.id = r2.id => r1 = r2
       /\ \A t \in Threads, batch \in PostingBatches :
            UpsertPostings(t, batch, MaxRequests) => UpsertedAs(batch)
       /\ \A t \in Threads :
            UpsertScanned(t) => UpsertedAs(th[t].postings)
       /\ (job_postings' # job_postings =>
             \E t \in Threads :
                \/ UpsertScanned(t)
                \/ \E batch \in PostingBatches : UpsertPostings(t, batch, MaxRequests))
      ]_vars

C10_PostingReplaced ==
    /\ Cardinality(job_postings) >= 2
    /\ \E r \in job_postings :
         /\ r.id = JobPostingA2.id
         /\ r.company = JobPostingA2.company
         /\ r.created_at < r.updated_at

\* C11: the duplicate_hint_count written for a posting is the number of
\* rows of other ids that hold its dedup key once it is written, rows
\* written earlier in the same batch included; a posting whose normalised
\* fields are those of a stored row of another id with a derived key gets
\* at least 1; and the possible_duplicates a scan's upsert reports is the
\* number of postings of the batch written with a count above 0.
RowsAfter(batch, k) == upsert_postings(job_postings, SubSeq(batch, 1, k), now).rows
WrittenRow(batch, k) == PostingRow(RowsAfter(batch, k), batch[k].id)
OthersWithKey(rows, row) ==
    {r \in rows : r.id # row.id /\ r.dedup_key = row.dedup_key}
SameNormalized(r, row) ==
    /\ r.id # row.id
    /\ r.normalized_title = row.normalized_title
    /\ r.normalized_company = row.normalized_company
    /\ r.normalized_location = row.normalized_location
    /\ r.normalized_url = row.normalized_url
    /\ r.dedup_key = build_dedup_key(r.title, r.company, r.location, r.apply_url)
    /\ row.dedup_key =
           build_dedup_key(row.title, row.company, row.location, row.apply_url)

HintsCounted(batch) ==
    /\ job_postings' = RowsAfter(batch, Len(batch))
    /\ \A k \in DOMAIN batch :
         /\ WrittenRow(batch, k).duplicate_hint_count =
                Cardinality(OthersWithKey(RowsAfter(batch, k), WrittenRow(batch, k)))
         /\ ((\E r \in RowsAfter(batch, k) : SameNormalized(r, WrittenRow(batch, k)))
                => WrittenRow(batch, k).duplicate_hint_count >= 1)
    /\ batch # <<>> =>
         PostingRow(job_postings', batch[Len(batch)].id).duplicate_hint_count =
             Cardinality(OthersWithKey(job_postings',
                                       PostingRow(job_postings', batch[Len(batch)].id)))

C11_DuplicateHintCount ==
    [][/\ \A t \in Threads, batch \in PostingBatches :
            UpsertPostings(t, batch, MaxRequests) => HintsCounted(batch)
       /\ \A t \in Threads :
            UpsertScanned(t) =>
              /\ HintsCounted(th[t].postings)
              /\ th'[t].summary.updated = Len(th[t].postings)
              /\ th'[t].summary.possible_duplicates =
                     Cardinality({k \in DOMAIN th[t].postings :
                         WrittenRow(th[t].postings, k).duplicate_hint_count > 0})]_vars

C11_DuplicateHinted ==
    /\ \E r \in job_postings :
         /\ r.duplicate_hint_count = 1
         /\ \E o \in job_postings : o.id # r.id /\ o.dedup_key = r.dedup_key
    /\ \E t \in Threads :
         /\ IsSet(th[t].result)
         /\ Val(th[t].result).status = "ok"
         /\ Val(th[t].result).possible_duplicates >= 1

\* C12: no step removes a stored posting id: in every step of upserts,
\* scans and recommend requests every id stored before is stored after,
\* and rows of different ids that share a dedup key stay separate rows.
C12_PostingsOnlyGrow ==
    [][/\ PostingIds(job_postings) \subseteq PostingIds(job_postings')
       /\ Cardinality(job_postings') >= Cardinality(job_postings)
       /\ Cardinality(job_postings') = Cardinality(PostingIds(job_postings'))]_vars

C12_SharedKeyKept ==
    /\ \E r, o \in job_postings : r.id # o.id /\ r.dedup_key = o.dedup_key
    /\ Len(recommendation_runs) >= 1
    /\ \E r \in job_postings : r.source_id # None


\* C13: scanning a source whose items all carry an external_id or an id
\* gives each item the identity source_id::external_id (the stripped
\* external_id, else the stripped id), so the stored postings of the source
\* never outnumber the identities its payloads carry however often it is
\* scanned; a scan adds one row for each identity not stored before, none
\* for one already stored, and leaves each of its postings with the fields
\* of that scan.
Identity(source_id, external_id) == <<source_id, ":", ":">> \o external_id
RescanIdentities ==
    {Identity("s1", <<"1">>), Identity("s1", <<"2">>), Identity("s1", <<"x", "1">>)}

C13_RescanIdempotent ==
    [][/\ PostingIds(job_postings') \subseteq RescanIdentities
       /\ \A t \in Threads :
            UpsertScanned(t) =>
              /\ \A k \in DOMAIN th[t].postings :
                    /\ th[t].postings[k].external_id # None
                    /\ th[t].postings[k].id =
                           Identity(Source(t).source_id, Val(th[t].postings[k].external_id))
              /\ UpsertedAs(th[t].postings)
              /\ (BatchIds(th[t].postings) \subseteq PostingIds(job_postings) =>
                     Cardinality(job_postings') = Cardinality(job_postings))
      ]_vars

\* The URL first answered with two items and then with one: the posting of
\* identity s1::1 holds the title and the company of the second scan, and two
\* postings are stored.
C13_Rescanned ==
    /\ Len(scan_history) = 2
    /\ scan_history[1].status = "ok" /\ scan_history[1].fetched = 2
    /\ scan_history[2].status = "ok" /\ scan_history[2].fetched = 1
    /\ scan_history[1].scanned_at < scan_history[2].scanned_at
    /\ Cardinality(job_postings) = 2
    /\ \E r \in job_postings :
         /\ r.id = Identity("s1", <<"1">>)
         /\ r.title = TitleBeLoud
         /\ r.company = None
         /\ r.created_at < r.updated_at

\* C14: when a source whose items carry no external identity has been
\* scanned with success and is scanned again, the second scan stores, for
\* each item, a row of a new id next to the row of the first scan; the two
\* share one dedup key and the new row has duplicate_hint_count >= 1.
ScannedBefore(sid) ==
    \E i \in DOMAIN scan_history :
       scan_history[i].source_id = sid /\ scan_history[i].status = "ok"

RECURSIVE Total(_, _)
Total(results, field) ==
    IF results = <<>> THEN 0 ELSE Head(results)[field] + Total(Tail(results), field)

WithStatus(results, status) ==
    Cardinality({i \in DOMAIN results : results[i].status = status})

BatchTotals(b, targets) ==
    /\ Len(b.results) = Len(targets)
    /\ b.requested_sources = Len(targets)
    /\ \A i \in DOMAIN targets : b.results[i].source_id = targets[i]
    /\ b.successful_sources = WithStatus(b.results, "ok")
    /\ b.failed_sources = WithStatus(b.results, "error")
    /\ b.skipped_sources = WithStatus(b.results, "skipped")
    /\ b.successful_sources + b.failed_sources + b.skipped_sources = b.requested_sources
    /\ b.total_ingested = Total(b.results, "ingested")
    /\ b.possible_duplicates = Total(b.results, "possible_duplicates")

C15_BatchResults ==
    [][\A t \in Threads :
         /\ (th[t].pc = "idle" /\ th'[t].pc = "scan" /\ ~th'[t].single) =>
               /\ \A i, j \in DOMAIN th'[t].targets :
                     th'[t].targets[i] = th'[t].targets[j] => i = j
               /\ Range(th'[t].targets) \subseteq {r.source_id : r \in job_sources}
               /\ {r.source_id : r \in {e \in job_sources : e.enabled}}
                      \subseteq Range(th'[t].targets)
               /\ \A i \in DOMAIN th'[t].targets :
                     th'[t].queue[i].source_id = th'[t].targets[i]
         /\ (/\ \/ \E eo, rb \in BOOLEAN : StartScanAll(t, eo, rb, MaxRequests)
                   \/ \E enabled_only \in BOOLEAN :
                         StartScanScheduled(t, enabled_only, MaxRequests)
                /\ th'[t].pc = "idle") =>
               /\ th'[t].batch # None
               /\ BatchTotals(Val(th'[t].batch), <<>>)
         /\ (InScan(t) /\ ~th[t].single /\ th'[t].pc \in {"scan", "idle"}) =>
               /\ Len(th'[t].results) = Len(th[t].results) + 1
               /\ th'[t].results[Len(th'[t].results)].source_id = Source(t).source_id
               /\ SubSeq(th'[t].results, 1, Len(th[t].results)) = th[t].results
               /\ (Len(th[t].queue) > 1 =>
                      th'[t].pc = "scan" /\ th'[t].queue = Tail(th[t].queue))
               /\ (Len(th[t].queue) = 1 =>
                      /\ th'[t].pc = "idle" /\ th'[t].response = "200"
                      /\ th'[t].batch # None
                      /\ Val(th'[t].batch).results = th'[t].results
                      /\ BatchTotals(Val(th'[t].batch), th[t].targets))
      ]_vars

\* A batch over two sources went on after the error of the first.
C15_BatchPastError ==
    \E t \in Threads :
       /\ th[t].pc = "idle" /\ th[t].batch # None
       /\ Val(th[t].batch).requested_sources = 2
       /\ Val(th[t].batch).results[1].status = "error"
       /\ Val(th[t].batch).results[2].status = "ok"
       /\ Val(th[t].batch).failed_sources = 1
       /\ Val(th[t].batch).successful_sources = 1
       /\ Val(th[t].batch).total_ingested = 1

\* C16: every attempt of a scheduled batch is recorded in the scan history
\* with trigger "scheduled" and respect_backoff true; every attempt of a
\* manual batch or of a single-source scan is recorded with trigger
\* "manual" and the respect_backoff of the request, false when the request
\* does not give it.
Asked(t, trigger, respect_backoff) ==
    th'[t].pc = "scan" =>
       th'[t].trigger = trigger /\ th'[t].respect_backoff = respect_backoff

C16_TriggerRecorded ==
    [][/\ \A t \in Threads :
            /\ \A s \in SourceIds, q \in BackoffQueries :
                  StartScanOne(t, s, respect_backoff_of(q), MaxRequests) =>
                     Asked(t, "manual", q = Some(TRUE))
            /\ \A eo \in BOOLEAN, q \in BackoffQueries :
                  StartScanAll(t, eo, respect_backoff_of(q), MaxRequests) =>
                     Asked(t, "manual", q = Some(TRUE))
            /\ \A eo \in BOOLEAN :
                  StartScanScheduled(t, eo, MaxRequests) => Asked(t, "scheduled", TRUE)
            /\ (th[t].pc = "scan" \/ InScan(t)) =>
                  /\ th'[t].trigger = th[t].trigger
                  /\ th'[t].respect_backoff = th[t].respect_backoff
            /\ (InScan(t) /\ th'[t].pc \in {"scan", "idle"}) =>
                  /\ Appended
                  /\ NewRow.source_id = Source(t).source_id
                  /\ NewRow.trigger = th[t].trigger
                  /\ NewRow.respect_backoff = th[t].respect_backoff
       /\ (Appended => \E t \in Threads : InScan(t) /\ th'[t].pc \in {"scan", "idle"})
       /\ \A i \in DOMAIN scan_history' :
            /\ scan_history'[i].trigger \in {"manual", "scheduled"}
            /\ scan_history'[i].trigger = "scheduled" => scan_history'[i].respect_backoff
      ]_vars

\* The history holds an attempt of a scheduled batch and one of a manual
\* scan that asked for respect_backoff.
C16_BothTriggersRecorded ==
    /\ \E i \in DOMAIN scan_history :
         scan_history[i].trigger = "scheduled" /\ scan_history[i].respect_backoff
    /\ \E i \in DOMAIN scan_history :
         scan_history[i].trigger = "manual" /\ scan_history[i].respect_backoff

\* C17: a scan of a source id that is not stored, and a recommend request
\* whose profile_id is not empty and not stored, end with 404 at once and
\* leave the postings, the sources, the scan history, the recommendation
\* runs and the profiles as they were, the postings of the request not
\* upserted; an empty profile_id counts as no profile_id.
Refused(t) ==
    /\ th'[t].pc = "idle"
    /\ th'[t].response = "404"
    /\ UNCHANGED <<job_postings, job_sources, scan_history, recommendation_runs,
                   user_profiles>>

C17_NotFoundNoChange ==
    [][\A t \in Threads :
         /\ \A s \in SourceIds :
               (StartScanOne(t, s, FALSE, MaxRequests) /\ ~HasSource(job_sources, s))
                  => Refused(t)
         /\ \A payload \in RecommendRequests :
               (/\ StartRecommend(t, payload, MaxRequests)
                /\ payload.profile_id \notin {None, Some("")}
                /\ ~HasProfile(user_profiles, Val(payload.profile_id)))
                  => Refused(t)
      ]_vars

\* A request was refused with 404 while a profile, a source and postings
\* were stored.
C17_RefusedWhileStored ==
    /\ \E t \in Threads : th[t].pc = "idle" /\ th[t].response = "404"
    /\ user_profiles # {}
    /\ job_postings # {}
    /\ recommendation_runs = <<>>

\* C17 as stated: a recommend request with any profile_id that is not stored
\* ends with 404.
C17_UnknownProfileNotFound ==
    [][\A t \in Threads, payload \in RecommendRequests :
         (/\ StartRecommend(t, payload, MaxRequests)
          /\ payload.profile_id # None
          /\ ~HasProfile(user_profiles, Val(payload.profile_id)))
            => Refused(t)
      ]_vars

\* C18: an upsert of an inline source without postings, or of a URL source
\* without url, is answered with a validation error and changes nothing:
\* no source is created and a stored source of that id keeps its row; so
\* every stored inline source has at least one posting in its
\* configuration and every stored URL source has a url.
Misconfigured(payload) ==
    \/ payload.source_type = "inline_json" /\ Len(payload.postings) = 0
    \/ payload.source_type = "json_url" /\ payload.url = None

C18_InvalidSourceRejected ==
    [][/\ \A t \in Threads, payload \in IdentifiedSources \cup InvalidSourceRequests :
            (UpsertJobSource(t, payload, MaxRequests) /\ Misconfigured(payload)) =>
               /\ th'[t].pc = "idle"
               /\ th'[t].response = "422"
               /\ UNCHANGED <<job_sources, job_postings, scan_history,
                              recommendation_runs, user_profiles>>
       /\ \A r \in job_sources' :
            /\ r.source_type = "inline_json" =>
                  r.config.postings # None /\ Len(Val(r.config.postings)) >= 1
            /\ r.source_type = "json_url" => r.config.url # None
      ]_vars

\* An upsert was rejected while the source it names was stored and scanned.
C18_RejectedKeepsSource ==
    /\ \E t \in Threads : th[t].pc = "idle" /\ th[t].response = "422"
    /\ \E r \in job_sources : r.source_id = "s1" /\ r.last_status = Some("ok")

\* C19: when the fetch of a URL source fails (no answer, a body that is not
\* JSON) or its payload cannot be mapped (neither an object nor a list,
\* postings that is not a list), the attempt ends with a result of status
\* error that carries the text of the failure; the same text is stored as
\* the last_error of the source and in the history row of the attempt,
\* fetched, ingested and possible_duplicates are 0 in both, and no step of
\* the attempt changes the stored postings.
Fails(outcome) ==
    \/ ~outcome.ok
    \/ Val(outcome.payload).kind \notin {"dict", "list"}
    \/ Val(outcome.payload).postings.tag \notin {"list", "absent"}

FailureText(outcome) ==
    IF ~outcome.ok THEN outcome.error
    ELSE IF Val(outcome.payload).kind \notin {"dict", "list"}
    THEN "Source payload must be a JSON object or list."
    ELSE "Source payload postings must be a list."

NothingCounted(r) == r.fetched = 0 /\ r.ingested = 0 /\ r.possible_duplicates = 0

C19_FailureRecorded ==
    [][\A t \in Threads :
         /\ \A outcome \in NetworkOutcomes \cup FailingOutcomes :
               (Load(t, outcome) /\ Source(t).source_type = "json_url") =>
                  /\ job_postings' = job_postings
                  /\ IF Fails(outcome)
                     THEN /\ th'[t].pc = "record_error"
                          /\ th'[t].error = Some(FailureText(outcome))
                     ELSE th'[t].pc = "upsert"
         /\ (th[t].pc = "record_error" /\ th'[t].pc # "record_error") =>
               LET result == Val(th'[t].result)
                   sid == Source(t).source_id
               IN  /\ th[t].error # None
                   /\ result.source_id = sid
                   /\ result.status = "error"
                   /\ result.error = th[t].error
                   /\ NothingCounted(result)
                   /\ Appended /\ HistoryKept
                   /\ NewRow.source_id = sid
                   /\ NewRow.status = "error"
                   /\ NewRow.error = th[t].error
                   /\ NothingCounted(NewRow)
                   /\ SourceRow(job_sources', sid).last_status = Some("error")
                   /\ SourceRow(job_sources', sid).last_error = th[t].error
                   /\ job_postings' = job_postings
                   /\ th'[t].response = (IF th[t].single THEN "502" ELSE "200")
      ]_vars

\* A scan of s1 got a JSON number after an earlier scan had stored a
\* posting: the source and the history hold the text of the failure and the
\* posting is still stored.
C19_MappingFailureRecorded ==
    /\ job_postings # {}
    /\ \E i \in DOMAIN scan_history :
         /\ scan_history[i].status = "error"
         /\ scan_history[i].error = Some("Source payload must be a JSON object or list.")
    /\ \E r \in job_sources :
         r.last_error = Some("Source payload must be a JSON object or list.")
    /\ \E t \in Threads : th[t].pc = "idle" /\ th[t].response = "502"

\* C20: the recommendations of rank_postings are as many as the postings
\* it is given, each id is recommended as often as it is given, and no
\* recommendation has a higher score than the one before it.
TimesGiven(seq, id) == Cardinality({i \in DOMAIN seq : seq[i].id = id})

RankedAll(postings, ranked) ==
    /\ Len(ranked) = Len(postings)
    /\ \A id \in BatchIds(postings) \cup BatchIds(ranked) :
         TimesGiven(ranked, id) = TimesGiven(postings, id)
    /\ \A i \in 1..(Len(ranked) - 1) : ranked[i].score >= ranked[i + 1].score

C20_RankedDescending ==
    \A t \in Threads :
       /\ th[t].pc = "record_run" => RankedAll(th[t].postings, th[t].ranked)
       /\ th[t].recommended # None =>
             \A i \in 1..(Len(Val(th[t].recommended).recommendations) - 1) :
                Val(th[t].recommended).recommendations[i].score >=
                   Val(th[t].recommended).recommendations[i + 1].score

\* Three postings were ranked, two of them under one id, and the ranking
\* moved the first of them behind one of a higher score.
C20_RankingReordered ==
    \E t \in Threads :
       /\ th[t].pc = "record_run"
       /\ Len(th[t].ranked) = 3
       /\ th[t].ranked[1].id # th[t].postings[1].id
       /\ th[t].ranked[1].score > th[t].ranked[3].score
       /\ Cardinality(BatchIds(th[t].postings)) = 2

\* C21: the final score of every ranked posting is the value of
\* max(0, 0.55 * title overlap + 0.35 * description overlap + 0.10 * keyword
\* overlap + preference bonus + freshness bonus - duplicate penalty) rounded
\* to four decimals (it is within 0.00005 of that value), where an overlap
\* is the share of the candidate tokens found among the reference tokens,
\* 0 for no candidate token, and the duplicate penalty is
\* min(0.02 * duplicate_hint_count, 0.08); it is never negative.
Overlap(reference, candidates) ==
    <<Cardinality(reference \cap candidates),
      IF candidates = {} THEN 1 ELSE Cardinality(candidates)>>

\* The sum before max(0, .), in ten-thousandths, times Denominator
Numerator(t, d, k, extra) ==
    5500 * t[1] * d[2] * k[2] + 3500 * d[1] * t[2] * k[2]
       + 1000 * k[1] * t[2] * d[2] + extra * t[2] * d[2] * k[2]
Denominator(t, d, k) == t[2] * d[2] * k[2]

ScoreWithin(score, n, den) ==
    /\ 2 * (score * den - Max(n, 0)) <= den
    /\ 2 * (Max(n, 0) - score * den) <= den
ScoreExact(score, n, den) == score * den = Max(n, 0)

JobTokens(p) ==
    tokenize(p.title) \cup tokenize(p.description) \cup tokenize(OrEmpty(p.company))
Extra(p, r) ==
    r.score_breakdown.preference_bonus + r.score_breakdown.freshness_bonus
       - Min(200 * p.duplicate_hint_count, 800)

ScoreNumerator(p, r, resume, keywords) ==
    Numerator(Overlap(resume, tokenize(p.title)),
              Overlap(resume, tokenize(p.description)),
              Overlap(keywords, JobTokens(p)), Extra(p, r))
ScoreDenominator(p, resume, keywords) ==
    Denominator(Overlap(resume, tokenize(p.title)),
                Overlap(resume, tokenize(p.description)),
                Overlap(keywords, JobTokens(p)))

RankingOf(p, r) == r.id = p.id /\ r.title = p.title /\ r.company = p.company

Ranks(t) == th[t].pc = "recommend" /\ th'[t].pc = "record_run"
ResumeTokens(t) == tokenize(Val(th[t].request).resume_text)
KeywordTokens(t) ==
    tokenize(join(resolve_recommendation_preferences(Val(th[t].request),
                                                     th[t].profile).preferred_keywords,
                  <<" ">>))

C21_ScoreFormula ==
    [][\A t \in Threads :
         Ranks(t) =>
           \A i \in DOMAIN th'[t].postings :
              \E j \in DOMAIN th'[t].ranked :
                 /\ RankingOf(th'[t].postings[i], th'[t].ranked[j])
                 /\ th'[t].ranked[j].score >= 0
                 /\ th'[t].ranked[j].score = th'[t].ranked[j].score_breakdown.final_score
                 /\ th'[t].ranked[j].score_breakdown.duplicate_penalty =
                        Min(200 * th'[t].postings[i].duplicate_hint_count, 800)
                 /\ ScoreWithin(th'[t].ranked[j].score,
                                ScoreNumerator(th'[t].postings[i], th'[t].ranked[j],
                                               ResumeTokens(t), KeywordTokens(t)),
                                ScoreDenominator(th'[t].postings[i],
                                                 ResumeTokens(t), KeywordTokens(t)))
      ]_vars

\* A ranking holds a posting whose sum is below zero, scored 0, and one
\* whose penalty is capped and whose score is a rounded value.
C21_ClampedAndCapped ==
    \E t \in Threads :
       /\ th[t].pc = "record_run"
       /\ \E j \in DOMAIN th[t].ranked :
            /\ th[t].ranked[j].id = PostingNoMatch.id
            /\ th[t].ranked[j].score = 0
            /\ th[t].ranked[j].score_breakdown.preference_bonus < 0
       /\ \E j \in DOMAIN th[t].ranked :
            /\ th[t].ranked[j].id = PostingThirds.id
            /\ th[t].ranked[j].score_breakdown.duplicate_penalty = 800
            /\ th[t].ranked[j].score_breakdown.title_overlap = 3333
            /\ th[t].ranked[j].score > 0

\* C21 as stated: the final score is the value of the formula itself.
C21_ScoreIsFormula ==
    [][\A t \in Threads :
         Ranks(t) =>
           \A i \in DOMAIN th'[t].postings :
              \E j \in DOMAIN th'[t].ranked :
                 /\ RankingOf(th'[t].postings[i], th'[t].ranked[j])
                 /\ ScoreExact(th'[t].ranked[j].score,
                               ScoreNumerator(th'[t].postings[i], th'[t].ranked[j],
                                              ResumeTokens(t), KeywordTokens(t)),
                               ScoreDenominator(th'[t].postings[i],
                                                ResumeTokens(t), KeywordTokens(t)))
      ]_vars

\* C22: when remote_only is asked for and no location is preferred, of two
\* postings of one ranking that differ only in their id and their location,
\* one saying "remote" in its location and the other saying it nowhere, the
\* one without never scores higher, and scores exactly 0.13 less whenever
\* its own score is above 0; the two score the same only at 0.
SaysRemote(posting) ==
    \E text \in {OrEmpty(posting.location), posting.title, posting.description} :
       contains(lower(text), <<"r", "e", "m", "o", "t", "e">>)

OtherwiseIdentical(p, q) ==
    /\ ~SaysRemote(p)
    /\ SaysRemote(q)
    /\ [q EXCEPT !.id = p.id, !.location = p.location] = p

Preferences(t) == resolve_recommendation_preferences(Val(th[t].request), th[t].profile)
RemoteOnlyRanking(t) ==
    /\ Ranks(t)
    /\ Preferences(t).remote_only
    /\ Preferences(t).preferred_locations = <<>>

ScoreOf(ranked, posting) ==
    ranked[CHOOSE j \in DOMAIN ranked : ranked[j].id = posting.id].score

Chosen(requested, profile, field) ==
    IF Len(requested) > 0 THEN requested
    ELSE IF profile = None THEN <<>> ELSE Val(profile)[field]

ChosenRemoteOnly(requested, profile) ==
    IF requested = Some(TRUE) THEN TRUE
    ELSE IF requested = Some(FALSE) THEN FALSE
    ELSE IF profile = None THEN FALSE ELSE Val(profile).remote_only

RankedWith(payload, profile, postings, at) ==
    rank_postings(payload.resume_text, postings,
                  Chosen(payload.preferred_keywords, profile, "preferred_keywords"),
                  Chosen(payload.preferred_locations, profile, "preferred_locations"),
                  Chosen(payload.preferred_companies, profile, "preferred_companies"),
                  ChosenRemoteOnly(payload.remote_only, profile), at)

NamedProfile(payload) ==
    IF HasProfile(user_profiles, Val(payload.profile_id))
    THEN Some(ProfileRow(user_profiles, Val(payload.profile_id))) ELSE None

C23_PreferencesResolved ==
    [][\A t \in Threads :
         /\ \A payload \in PreferenceRequests :
               (StartRecommend(t, payload, MaxRequests) /\ th'[t].pc = "recommend") =>
                  th'[t].profile = (IF payload.profile_id = None THEN None
                                    ELSE NamedProfile(payload))
         /\ Ranks(t) =>
               th'[t].ranked = RankedWith(Val(th[t].request), th[t].profile,
                                          th'[t].postings, now)
      ]_vars

\* Two requests that named the stored profile p1 were answered: for the
\* posting of company Co, the one with its own preferences got no
\* preference bonus, the other the bonus of the profile's company less the
\* penalty of the profile's remote_only.
BonusOf(response) ==
    LET items == response.recommendations
    IN  items[CHOOSE j \in DOMAIN items : items[j].id = JobPostingA2.id]
           .score_breakdown.preference_bonus

C23_OwnAndProfile ==
    \E t, u \in Threads :
       /\ th[t].recommended # None /\ th[u].recommended # None
       /\ Val(th[t].recommended).applied_profile_id = Some("p1")
       /\ Val(th[u].recommended).applied_profile_id = Some("p1")
       /\ Val(th[t].request).remote_only = Some(FALSE)
       /\ Val(th[u].request).remote_only = None
       /\ BonusOf(Val(th[t].recommended)) = 0
       /\ BonusOf(Val(th[u].recommended)) = 300

\* C24: a recommend request with postings stores a row for each of their
\* ids, holding the last posting of that id, leaves every other row as it
\* was and ranks the postings of the request; a recommend request without
\* postings leaves the rows as they were and ranks stored rows, each once,
\* the most recently updated first, max_postings of them or all when there
\* are fewer, none of those left out being newer than one taken.
Supplies(postings, id) == \E i \in DOMAIN postings : postings[i].id = id

LastOf(postings, id) ==
    postings[CHOOSE i \in DOMAIN postings :
                /\ postings[i].id = id
                /\ \A j \in DOMAIN postings : postings[j].id = id => j <= i]

RanksAll(ranked, postings) ==
    /\ Len(ranked) = Len(postings)
    /\ \A i \in DOMAIN postings :
          Cardinality({j \in DOMAIN ranked : ranked[j].id = postings[i].id})
             = Cardinality({j \in DOMAIN postings : postings[j].id = postings[i].id})

UpsertsExactly(postings) ==
    /\ \A r \in job_postings : ~Supplies(postings, r.id) => r \in job_postings'
    /\ \A r \in job_postings' : ~Supplies(postings, r.id) => r \in job_postings
    /\ \A i \in DOMAIN postings :
          \E r \in job_postings' :
             /\ r.id = postings[i].id
             /\ r.title = normalize_whitespace(LastOf(postings, r.id).title)
             /\ r.company = LastOf(postings, r.id).company
             /\ r.updated_at = now
             /\ \A other \in job_postings' : other.id = r.id => other = r

ListsStored(listed, limit) ==
    /\ Len(listed) = Min(limit, Cardinality(job_postings))
    /\ \A i \in DOMAIN listed :
          \E r \in job_postings :
             /\ r.id = listed[i].id /\ r.title = listed[i].title
             /\ r.description = listed[i].description
             /\ Some(r.updated_at) = listed[i].updated_at
    /\ \A i, j \in DOMAIN listed : i < j =>
          /\ listed[i].id # listed[j].id
          /\ Val(listed[i].updated_at) >= Val(listed[j].updated_at)
    /\ \A r \in job_postings :
          (\A i \in DOMAIN listed : listed[i].id # r.id) =>
             \A i \in DOMAIN listed : Val(listed[i].updated_at) >= r.updated_at

C24_PayloadUpsertedStoredListed ==
    [][\A t \in Threads :
         Ranks(t) =>
            /\ RanksAll(th'[t].ranked, th'[t].postings)
            /\ IF Val(th[t].request).postings # <<>>
               THEN /\ th'[t].postings = Val(th[t].request).postings
                    /\ th'[t].source = "payload"
                    /\ UpsertsExactly(Val(th[t].request).postings)
               ELSE /\ job_postings' = job_postings
                    /\ th'[t].source = "stored"
                    /\ ListsStored(th'[t].postings, Val(th[t].request).max_postings)
      ]_vars

\* A request without postings was answered with the one newest of two
\* stored rows, and a request with postings was answered while a row of
\* another id was stored.
NewestOfTwo ==
    \E t \in Threads :
       /\ th[t].recommended # None
       /\ Val(th[t].recommended).source = "stored"
       /\ Val(th[t].request).max_postings = 1
       /\ Len(Val(th[t].recommended).recommendations) = 1
       /\ \E r, newer \in job_postings :
             /\ r.updated_at < newer.updated_at
             /\ Val(th[t].recommended).recommendations[1].id = newer.id

PayloadBesideOthers ==
    \E t \in Threads :
       /\ th[t].recommended # None
       /\ Val(th[t].recommended).source = "payload"
       /\ \E r \in job_postings : ~Supplies(Val(th[t].request).postings, r.id)

C24_BothWays == NewestOfTwo /\ PayloadBesideOthers

\* C25: the step that answers a recommend request with 200 adds one run,
\* whose id is above the id of every run before it and is the run_id of the
\* answer, and whose number of items (its recommendation_count) is the
\* number of recommendations of the answer; no other step adds, removes or
\* changes a run.
Answers(t) == th[t].pc = "record_run" /\ th'[t].pc = "idle"

recommendation_count(run) == Len(run.items)

OneRunMore(t) ==
    /\ Len(recommendation_runs') = Len(recommendation_runs) + 1
    /\ SubSeq(recommendation_runs', 1, Len(recommendation_runs)) = recommendation_runs
    /\ LET run == recommendation_runs'[Len(recommendation_runs')]
           answer == Val(th'[t].recommended)
       IN  /\ \A i \in DOMAIN recommendation_runs :
                 recommendation_runs[i].run_id < run.run_id
           /\ th'[t].response = "200"
           /\ answer.run_id = run.run_id
           /\ recommendation_count(run) = Len(answer.recommendations)
           /\ \A rank \in DOMAIN run.items :
                 run.items[rank].job_id = answer.recommendations[rank].id

C25_OneRunPerRecommend ==
    [][/\ \A t \in Threads : Answers(t) => OneRunMore(t)
       /\ recommendation_runs' # recommendation_runs => \E t \in Threads : Answers(t)
      ]_vars

\* Two requests were answered, the second with the run id 2, and their
\* runs hold different numbers of recommendations.
C25_SecondRun ==
    /\ Len(recommendation_runs) = 2
    /\ recommendation_count(recommendation_runs[1]) # recommendation_count(recommendation_runs[2])
    /\ \E t \in Threads :
          /\ th[t].recommended # None
          /\ Val(th[t].recommended).run_id = 2
          /\ Len(Val(th[t].recommended).recommendations) > 0

\* C26: build_dedup_key gives one key for two tuples whose titles,
\* companies and locations hold the same words in the same order, letter
\* case aside, whatever punctuation or whitespace stands between and around
\* the words, and whose apply-URLs have the same host, letter case aside,
\* and the same path up to trailing slashes, whatever their query and
\* fragment; the same tuple given twice gives the same key.
IsWordChar(c) == ~IsPunctuation(c) /\ ~IsSpace(c)

WordStarts(text) ==
    {i \in DOMAIN text : IsWordChar(text[i]) /\ (i = 1 \/ ~IsWordChar(text[i - 1]))}

WordAt(text, i) ==
    LET last == CHOOSE j \in i..Len(text) :
                   /\ \A k \in i..j : IsWordChar(text[k])
                   /\ (j = Len(text) \/ ~IsWordChar(text[j + 1]))
    IN  lower(SubSeq(text, i, last))

WordsOf(text) ==
    [n \in 1..Cardinality(WordStarts(text)) |->
        WordAt(text, CHOOSE i \in WordStarts(text) :
                        Cardinality({j \in WordStarts(text) : j < i}) = n - 1)]

SameWords(a, b) == WordsOf(OrEmpty(a)) = WordsOf(OrEmpty(b))

\* host and path of a URL of the form scheme://host/path?query#fragment
HostStart(url) == 2 + CHOOSE i \in DOMAIN url :
                         /\ url[i] = "/" /\ url[i + 1] = "/"
                         /\ \A j \in 1..(i - 1) : url[j] # "/"
PathStart(url) == CHOOSE i \in HostStart(url)..Len(url) :
                      url[i] = "/" /\ \A j \in HostStart(url)..(i - 1) : url[j] # "/"
HostOf(url) == SubSeq(url, HostStart(url), PathStart(url) - 1)
PathOf(url) == UrlStem(SubSeq(url, PathStart(url), Len(url)))

SameHostAndPath(a, b) ==
    IF a = None \/ b = None THEN a = b
    ELSE /\ lower(HostOf(Val(a))) = lower(HostOf(Val(b)))
         /\ PathOf(Val(a)) = PathOf(Val(b))

SameSignals(a, b) ==
    /\ SameWords(Some(a.title), Some(b.title))
    /\ SameWords(a.company, b.company)
    /\ SameWords(a.location, b.location)
    /\ SameHostAndPath(a.apply_url, b.apply_url)

KeysBuilt(t) == th[t].pc = "idle" /\ th[t].result # None /\ th[t].request # None

DerivedKey(row) == build_dedup_key(row.title, row.company, row.location, row.apply_url)

C27_SourcedKeyDerived ==
    \A row \in job_postings : row.source_id # None => row.dedup_key = DerivedKey(row)

\* C28: a request that presents a token whose row is revoked when the
\* request starts, or when its token is looked up, is answered 401 and
\* changes neither postings nor tokens; a row once revoked stays revoked
\* with the same revoked_at.
IssuedRow(key) == CHOOSE row \in api_tokens : row.token_hash = hash_token(key)
Issued(key) == \E row \in api_tokens : row.token_hash = hash_token(key)
Revoked(key) == Issued(key) /\ IssuedRow(key).revoked_at # None

\* The request that starts is handled by the first thread that is free
StartsRequest(t) ==
    /\ started' = started + 1
    /\ th[t].pc = "idle" /\ \A u \in Threads : u < t => th[u].pc # "idle"
LooksUp(t) == th[t].pc = "resolve_db_token" /\ th'[t].pc # "resolve_db_token"
Unauthorized(t) == th'[t].pc = "idle" /\ th'[t].response = "401"

C28_RevokedRejected ==
    [][/\ \A t \in Threads :
            /\ (StartsRequest(t) /\ Revoked(th'[t].api_key)) =>
                  /\ Unauthorized(t) \/ th'[t].pc = "resolve_db_token"
                  /\ UNCHANGED <<job_postings, api_tokens>>
            /\ (LooksUp(t) /\ Revoked(th[t].api_key)) =>
                  Unauthorized(t) /\ UNCHANGED <<job_postings, api_tokens>>
       /\ \A row \in api_tokens :
            row.revoked_at # None =>
               \E kept \in api_tokens' :
                  kept.token_id = row.token_id /\ kept.revoked_at = row.revoked_at
      ]_vars

\* C29: when a token is configured or an issued token is active, a request
\* without key or with a key that is neither configured nor an active
\* issued token is answered 401, a request whose token holds neither the
\* scope of the endpoint nor "*" is answered 403, both without a change of
\* the postings or of the issued tokens but for their last use; the
\* operation of the endpoint is reached only by a token that holds the
\* scope or "*", and postings and tokens change in no other way.
ActiveRow(row) ==
    row.revoked_at = None /\ (row.expires_at = None \/ now < Val(row.expires_at))
Configured == auth_token_scopes # NoEnvTokens \/ \E row \in api_tokens : ActiveRow(row)
FromEnvironment(key) == key \in DOMAIN auth_token_scopes
ScopesOf(key) ==
    IF FromEnvironment(key) THEN auth_token_scopes[key] ELSE IssuedRow(key).scopes
Holds(key, scope) == scope \in ScopesOf(key) \/ "*" \in ScopesOf(key)
ValidIssued(key) == Issued(key) /\ ActiveRow(IssuedRow(key))

Forbidden(t) == th'[t].pc = "idle" /\ th'[t].response = "403"
Touches(t) == th[t].pc = "touch_api_token_usage" /\ th'[t].pc # "touch_api_token_usage"
Operates(t) == th[t].pc = "operate" /\ th'[t].pc = "idle"
RequiredScope(l) == Val(l.operation).scope

WithoutUse(rows) == {[row EXCEPT !.last_used_at = None, !.updated_at = 0] : row \in rows}
NothingDone == job_postings' = job_postings /\ WithoutUse(api_tokens') = WithoutUse(api_tokens)

StartChecked(t) ==
    (StartsRequest(t) /\ Configured) =>
        /\ NothingDone
        /\ IF th'[t].api_key = "" THEN Unauthorized(t)
           ELSE IF FromEnvironment(th'[t].api_key)
           THEN (IF Holds(th'[t].api_key, RequiredScope(th'[t]))
                 THEN th'[t].pc = "operate" ELSE Forbidden(t))
           ELSE th'[t].pc = "resolve_db_token"

LookupChecked(t) ==
    LooksUp(t) =>
        /\ NothingDone
        /\ IF ValidIssued(th[t].api_key)
           THEN th'[t].pc = "touch_api_token_usage" ELSE Unauthorized(t)

TouchChecked(t) ==
    Touches(t) =>
        /\ NothingDone
        /\ IF Holds(th[t].api_key, RequiredScope(th[t]))
           THEN th'[t].pc = "operate" ELSE Forbidden(t)

C29_ScopeEnforced ==
    [][/\ \A t \in Threads : StartChecked(t) /\ LookupChecked(t) /\ TouchChecked(t)
       /\ \A t \in Threads :
            (th[t].pc # "operate" /\ th'[t].pc = "operate") =>
               \/ StartsRequest(t) /\ ~Configured
               \/ Holds(th'[t].api_key, RequiredScope(th'[t]))
       /\ ~NothingDone => \E t \in Threads : Operates(t)
      ]_vars

\* With the token t1 issued for postings:write and active, a request to
\* create a token that presented t1 was answered 403 and a request that
\* presented the unknown key zz was answered 401; nothing but t1 is stored.
C29_ForbiddenAndUnauthorized ==
    \E t, u \in Threads :
       /\ th[t].pc = "idle" /\ th[t].response = "403" /\ th[t].api_key = "t1"
       /\ Val(th[t].operation).action = "token_create"
       /\ th[u].pc = "idle" /\ th[u].response = "401" /\ th[u].api_key = "zz"
       /\ ValidIssued("t1") /\ IssuedRow("t1").scopes = {"postings:write"}
       /\ IssuedRow("t1").last_used_at # None
       /\ Cardinality(api_tokens) = 1
       /\ job_postings = {}

\* C30: a digest trigger puts one job for each of its recipients at the
\* end of the queue, in the order of the recipients, and answers with a
\* queued_jobs that is the number of its recipients.
Triggers(t) ==
    /\ StartsRequest(t)
    /\ th'[t].pc = "idle" /\ th'[t].request # None
    /\ Val(th'[t].request) \in DigestRequests

JobsOf(payload) ==
    [i \in DOMAIN payload.recipients |-> DigestJob(payload.recipients[i], payload.jobs)]

C30_QueuedPerRecipient ==
    [][\A t \in Threads :
         Triggers(t) =>
            /\ digest_queue' = digest_queue \o JobsOf(Val(th'[t].request))
            /\ Val(th'[t].result).queued_jobs = Len(Val(th'[t].request).recipients)
      ]_vars

(***************************************************************************)
(* Concurrent scans of one source.                                         *)
(***************************************************************************)
\* The thread decides between skipping and fetching in this step.
Decides(t) == th[t].pc = "scan" /\ th'[t].pc \in {"record_skipped", "load"}

\* The stored row of the source is in backoff at the given time.
StoredInBackoff(source_id, at) ==
    /\ HasSource(job_sources, source_id)
    /\ IsSet(SourceRow(job_sources, source_id).next_eligible_scan_at)
    /\ Val(SourceRow(job_sources, source_id).next_eligible_scan_at) > at

\* C31: with respect_backoff = true an attempt never goes on to fetch a
\* source whose stored next_eligible_scan_at is later than the attempt's
\* time, also when another scan of the source was recorded after the
\* attempt read the source.
C31_NoFetchInStoredBackoff ==
    [][ \A t \in Threads :
          (/\ Decides(t)
           /\ th[t].respect_backoff
           /\ StoredInBackoff(Source(t).source_id, now))
          => th'[t].pc = "record_skipped"
      ]_vars

(***************************************************************************)
(* SpecConcurrent: requests that scan the URL source s1 and store postings *)
(* run on two worker threads.  Every repository method runs its body in    *)
(* `with self._lock` and is one step here; scan_source calls               *)
(* load_source_payload between two such methods, outside any of them.      *)
(***************************************************************************)
MaxConcurrent == 4

\* The thread is inside a `with self._lock` block between two steps.
holds_lock_while_loading(l) == l.pc = "load"

holds_lock(l) == FALSE

\* self._lock can be taken by the thread: no other thread holds it
WithLock(t) == \A u \in Threads \ {t} : ~holds_lock(th[u])

NextConcurrent ==
    \/ Tick(MaxTicks)
    \/ \E t \in Threads : WithLock(t) /\ UpsertJobSource(t, UrlSource, MaxConcurrent)
    \/ \E t \in Threads : WithLock(t) /\ UpsertPostings(t, <<JobPostingA>>, MaxConcurrent)
    \/ \E t \in Threads, respect_backoff \in BOOLEAN :
          WithLock(t) /\ StartScanOne(t, UrlSource.source_id, respect_backoff, MaxConcurrent)
    \/ \E t \in Threads : ScanBegin(t)
    \/ \E t \in Threads, outcome \in NetworkOutcomes : Load(t, outcome)
    \/ \E t \in Threads : WithLock(t) /\ UpsertScanned(t)
    \/ \E t \in Threads : WithLock(t) /\ RecordSkipped(t)
    \/ \E t \in Threads : WithLock(t) /\ RecordOk(t)
    \/ \E t \in Threads : WithLock(t) /\ RecordError(t)

SpecConcurrent == Init /\ [][NextConcurrent]_vars

\* The repository step the thread is waiting to take can be taken now.  An
\* upsert of postings (of a request, or of a scan at pc "upsert") waits for
\* nothing but the lock; the state/history write needs the source's row too.
CanProceed(u) ==
    /\ WithLock(u)
    /\ th[u].pc = "record_skipped" => ENABLED (WithLock(u) /\ RecordSkipped(u))
    /\ th[u].pc = "record_ok" => ENABLED (WithLock(u) /\ RecordOk(u))
    /\ th[u].pc = "record_error" => ENABLED (WithLock(u) /\ RecordError(u))

FailuresSinceOk(source_id) ==
    {i \in DOMAIN scan_history :
        /\ scan_history[i].source_id = source_id
        /\ scan_history[i].status = "error"
        /\ \A j \in DOMAIN scan_history :
              (j > i /\ scan_history[j].source_id = source_id)
              => scan_history[j].status # "ok"}

\* C33: no failure is lost, however the scans of a source interleave: the
\* source's consecutive_failures is the number of failures recorded since
\* its last success, their history rows carry the attempt numbers 1, 2, ...
\* in the order they were written, and each row's backoff is the one of its
\* own attempt number, counted from its own scanned_at.
C33_NoFailureLost ==
    \A row \in job_sources :
       /\ row.consecutive_failures = Cardinality(FailuresSinceOk(row.source_id))
       /\ \A i \in FailuresSinceOk(row.source_id) :
             /\ scan_history[i].attempt_number =
                   Cardinality({j \in FailuresSinceOk(row.source_id) : j <= i})
             /\ scan_history[i].backoff_seconds =
                   Min(BackoffBase * 2 ^ (scan_history[i].attempt_number - 1), BackoffCap)
             /\ scan_history[i].next_eligible_scan_at =
                   Some(scan_history[i].scanned_at
                        + scan_history[i].backoff_seconds * TicksPerSecond)

\* Two scans of s1 that overlapped have both failed: the one that began
\* later was recorded first, and the source counts two failures.
C33_TwoOverlappingFailures ==
    /\ Len(scan_history) >= 2
    /\ scan_history[1].status = "error" /\ scan_history[2].status = "error"
    /\ scan_history[1].scanned_at > scan_history[2].scanned_at
    /\ scan_history[1].attempt_number = 1 /\ scan_history[2].attempt_number = 2
    /\ \E row \in job_sources : row.consecutive_failures = 2

\* C34: every scan-history row with status skipped carries a
\* next_eligible_scan_at that is set and later than the row's scanned_at,
\* however the scans of the source interleave.
C34_SkippedRowInBackoff ==
    \A i \in DOMAIN scan_history :
       scan_history[i].status = "skipped" =>
          /\ IsSet(scan_history[i].next_eligible_scan_at)
          /\ Val(scan_history[i].next_eligible_scan_at) > scan_history[i].scanned_at

\* An optional time that is kept or moved forward.
NotEarlier(old, new) ==
    IsSet(old) => (IsSet(new) /\ Val(new) >= Val(old))

\* C35: a source's last_scan_at and last_success_at never move backwards,
\* however the scans of the source interleave.
C35_ScanTimesNeverGoBack ==
    [][ \A row \in job_sources, next \in job_sources' :
          row.source_id = next.source_id =>
             /\ NotEarlier(row.last_scan_at, next.last_scan_at)
             /\ NotEarlier(row.last_success_at, next.last_success_at)
      ]_vars

\* The stored postings whose id is not in the batch are left as they were.
OthersKept(batch) ==
    \A row \in job_postings :
       (\A k \in DOMAIN batch : batch[k].id # row.id) => row \in job_postings'

\* C36: an upsert of postings, of a request or of a scan, changes only the
\* rows of the ids it writes: every other stored posting keeps all its
\* columns, duplicate_hint_count included, also when a written posting has
\* its dedup key.
C36_OnlyUpsertedRowsChange ==
    [][/\ \A t \in Threads, batch \in PostingBatches :
            UpsertPostings(t, batch, MaxRequests) => OthersKept(batch)
       /\ \A t \in Threads :
            UpsertScanned(t) => OthersKept(th[t].postings)]_vars

\* A later posting has arrived with the dedup key of an earlier one, in an
\* upsert of its own: it counts the earlier row, whose hint count is still 0.
C36_EarlierHintNotRaised ==
    \E r \in job_postings, o \in job_postings :
       /\ o.id # r.id
       /\ o.dedup_key = r.dedup_key
       /\ r.updated_at < o.updated_at
       /\ r.duplicate_hint_count = 0
       /\ o.duplicate_hint_count = 1

\* C37: in every scan-history row fetched = ingested and
\* possible_duplicates <= ingested; the three are 0 unless the status is
\* ok; backoff_seconds is 0 when the status is ok and between 60 and 3600
\* when the status is error.
C37_HistoryRowCounts ==
    \A i \in DOMAIN scan_history :
       /\ scan_history[i].fetched = scan_history[i].ingested
       /\ scan_history[i].possible_duplicates <= scan_history[i].ingested
       /\ scan_history[i].possible_duplicates >= 0
       /\ scan_history[i].status # "ok" =>
             /\ scan_history[i].fetched = 0
             /\ scan_history[i].ingested = 0
             /\ scan_history[i].possible_duplicates = 0
       /\ scan_history[i].status = "ok" => scan_history[i].backoff_seconds = 0
       /\ scan_history[i].status = "error" =>
             /\ scan_history[i].backoff_seconds >= BackoffBase
             /\ scan_history[i].backoff_seconds <= BackoffCap

\* The history holds a success that ingested what it fetched and a failure
\* with its backoff.
C37_OkAndErrorRows ==
    /\ \E i \in DOMAIN scan_history :
          scan_history[i].status = "ok" /\ scan_history[i].fetched >= 1
    /\ \E i \in DOMAIN scan_history :
          scan_history[i].status = "error" /\ scan_history[i].backoff_seconds >= BackoffBase

(***************************************************************************)
(* SpecPenalty: recommend requests whose own postings carry a              *)
(* duplicate_hint_count of the caller's choosing, next to stored postings. *)
(***************************************************************************)
\* JobPosting.duplicate_hint_count is declared `int = 0`: any integer of the
\* request body is accepted
HintCounts == {-3, 0, 2, 5}
PostingHinted(count) ==
    [PostingThirds EXCEPT !.id = <<"h">>, !.duplicate_hint_count = count]
PenaltyRequests ==
    {RecommendBase} \cup
    {[RecommendBase EXCEPT !.postings = <<PostingHinted(count), PostingNoMatch>>] :
        count \in HintCounts}

NextPenalty ==
    \/ Tick(MaxTicks)
    \/ \E t \in Threads, batch \in PostingBatches : UpsertPostings(t, batch, MaxRequests)
    \/ \E t \in Threads, payload \in PenaltyRequests :
          StartRecommend(t, payload, MaxRequests)
    \/ \E t \in Threads : RecommendStored(t)
    \/ \E t \in Threads : RecommendPayload(t)
    \/ \E t \in Threads : RecordRun(t)

SpecPenalty == Init /\ [][NextPenalty]_vars

\* C38: for every ranked posting, stored or supplied by the caller, the
\* duplicate penalty lies between 0 and 0.08 (in ten-thousandths: 0 and
\* 800), so that a duplicate hint never raises a score.
C38_PenaltyBetweenZeroAndCap ==
    \A t \in Threads :
       \A j \in DOMAIN th[t].ranked :
          /\ th[t].ranked[j].score_breakdown.duplicate_penalty >= 0
          /\ th[t].ranked[j].score_breakdown.duplicate_penalty <= 800

(***************************************************************************)
(* SpecMapping: the URL source s1 answers with payloads that hold items    *)
(* that are no objects, items without title and items with an empty title. *)
(***************************************************************************)
ItemNoObject == [kind |-> "other"]
ItemUntitled == [ItemRemote EXCEPT !.id = Str(<<"2">>), !.title = Absent]
ItemEmptyTitle == [ItemRemote EXCEPT !.id = Str(<<"3">>), !.title = Str(<<>>)]
PayloadOf(kind, postings) ==
    [ok |-> TRUE, error |-> "", payload |-> Some([kind |-> kind, postings |-> postings])]
ItemsOf(items) == [tag |-> "list", v |-> items]
MappingOutcomes ==
    {[ok |-> FALSE, error |-> "upstream unavailable", payload |-> None],
     PayloadOf("dict", ItemsOf(<<ItemNoObject, ItemUntitled, ItemRemote, ItemEmptyTitle>>)),
     PayloadOf("list", ItemsOf(<<ItemEmptyTitle, ItemRemote, ItemSecond>>)),
     PayloadOf("dict", ItemsOf(<<ItemUntitled, ItemNoObject, ItemEmptyTitle>>)),
     PayloadOf("list", ItemsOf(<<>>)),
     PayloadOf("dict", Absent)}

NextMapping ==
    \/ \E t \in Threads : UpsertJobSource(t, UrlSource, MaxRequests)
    \/ \E t \in Threads : StartScanOne(t, UrlSource.source_id, FALSE, MaxRequests)
    \/ \E t \in Threads : ScanBegin(t)
    \/ \E t \in Threads, outcome \in MappingOutcomes : Load(t, outcome)
    \/ \E t \in Threads : UpsertScanned(t)
    \/ \E t \in Threads : RecordOk(t)
    \/ \E t \in Threads : RecordError(t)

SpecMapping == Init /\ [][NextMapping]_vars

\* The items of an answer, and those that are objects with a title that is
\* there and not empty.
AnsweredItems(outcome) ==
    IF Val(outcome.payload).postings.tag = "list"
    THEN Val(outcome.payload).postings.v ELSE <<>>
Titled(item) ==
    /\ item.kind = "dict"
    /\ item.title.tag = "str"
    /\ item.title.v # <<>>
TitlesOf(postings) == [i \in DOMAIN postings |-> postings[i].title]
TitlesAnswered(items) == [i \in DOMAIN items |-> items[i].title.v]

\* C39: items that are no objects or have no title or an empty one are
\* dropped by the mapping and the scan does not fail: the postings mapped
\* are those of the remaining items, in order; the scan is recorded ok with
\* fetched and ingested their number, 0 when no item remains or the object
\* has no postings member; and the record resets the source's backoff state.
C39_InvalidItemsDropped ==
    [][\A t \in Threads :
         /\ \A outcome \in MappingOutcomes :
               (outcome.ok /\ Load(t, outcome)) =>
                  /\ th'[t].pc = "upsert"
                  /\ TitlesOf(th'[t].postings) =
                        TitlesAnswered(SelectSeq(AnsweredItems(outcome), Titled))
         /\ (th[t].pc = "upsert" /\ UpsertScanned(t)) => th'[t].pc = "record_ok"
         /\ (th[t].pc = "record_ok" /\ RecordOk(t)) =>
               /\ Len(scan_history') = Len(scan_history) + 1
               /\ scan_history'[Len(scan_history')].status = "ok"
               /\ scan_history'[Len(scan_history')].fetched = Len(th[t].postings)
               /\ scan_history'[Len(scan_history')].ingested = Len(th[t].postings)
               /\ \A row \in job_sources' :
                     row.source_id = Source(t).source_id =>
                        /\ row.consecutive_failures = 0
                        /\ row.next_eligible_scan_at = None
                        /\ row.last_error = None
                        /\ row.last_status = Some("ok")
      ]_vars

\* After a failure, an answer without any valid item has been recorded ok
\* with nothing fetched, and the source is out of backoff.
C39_EmptyScanResetsBackoff ==
    /\ Len(scan_history) = 2
    /\ scan_history[1].status = "error"
    /\ scan_history[2].status = "ok"
    /\ scan_history[2].fetched = 0
    /\ \E row \in job_sources :
          row.consecutive_failures = 0 /\ row.next_eligible_scan_at = None

\* The jobs enqueued so far, in the order of their enqueue, as long as none
\* is lost, repeated or overtaken: those printed, then those waiting.
Accepted == digest_worker.sent \o digest_queue

Extends(longer, shorter) ==
    /\ Len(longer) >= Len(shorter)
    /\ SubSeq(longer, 1, Len(shorter)) = shorter

\* The most jobs the requests of SpecDigest can enqueue.
MaxJobs == 2 * MaxRequests

\* C40: every job enqueued is eventually taken by the running worker,
\* processed exactly once in the order of the enqueues, and marked done:
\* the jobs printed followed by the jobs waiting only ever grow at the end,
\* the jobs not yet marked done are those waiting and the one being sent,
\* the n-th job enqueued is eventually the n-th job printed, and the queue
\* is drained again and again, with no job waiting when it is.
C40_EveryJobProcessedInOrder ==
    /\ [][/\ Extends(Accepted', Accepted)
          /\ Extends(digest_worker'.sent, digest_worker.sent)]_vars
    /\ [](digest_worker.unfinished_tasks =
             Len(digest_queue) + (IF digest_worker.pc = "send" THEN 1 ELSE 0))
    /\ \A n \in 1..MaxJobs :
          (Len(Accepted) >= n) ~> (Len(digest_worker.sent) >= n /\ digest_worker.pc = "get")
    /\ []<>(digest_worker.unfinished_tasks = 0 /\ digest_queue = <<>>)

\* Two requests' jobs have been processed and marked done, in the order
\* they were enqueued, and the queue is drained.
C40_DrainedAfterThreeJobs ==
    /\ Len(digest_worker.sent) = 3
    /\ digest_worker.sent[1].recipient = "a@x.io"
    /\ digest_worker.sent[2].recipient = "b@x.io"
    /\ digest_worker.sent[3].recipient = "a@x.io"
    /\ digest_queue = <<>>
    /\ digest_worker.unfinished_tasks = 0
=============================================================================
